---------------------------- MODULE Spec2Model ----------------------------
(***************************************************************************)
(* The multiplayer session state machine of GameScreenMultiplayer.tsx.     *)
(*                                                                         *)
(* One room is modelled.  The values kept with useStateTogether are the    *)
(* room's shared store; every connected participant runs the same React    *)
(* component on it.  Render(u) is one commit of u's component: all of its  *)
(* effects (useEffect bodies) whose dependencies changed run in it.  Timer *)
(* callbacks, button handlers, joins and leaves wait until every mounted   *)
(* component has flushed its effects (AllSettled): the code's timers are   *)
(* of 150 ms and more, a commit takes far less.  Timeouts that the code    *)
(* never clears (the delayed setGameStarted(true), the flock members) are  *)
(* explicit pending-timer state.                                           *)
(***************************************************************************)
EXTENDS Integers, FiniteSets, Sequences, TLC

\* ---------------------------------------------------------------- bounds
NUsers == 3          \* participant ids 1..NUsers; 0 stands for '' (no id)
MaxGameId == 2       \* rounds played in one room
MaxBirds == 1        \* active entities tracked
MaxFlock == 1        \* pending flock-member timeouts tracked
Observed == 2        \* the participant whose (private) entities are tracked
\* The two clocks are scaled down; the code counts a round from 60
\* (useStateTogether('seconds', 60), setSeconds(60)) and the wait from 30
\* (useStateTogether('waitingTimer', 30), setWaitingTimer(30)).
RoundSeconds == 3
WaitingSeconds == 3

\* ------------------------------------------------------ program constants
CountdownStart == 3  \* setCountdown(3)
MinPlayers == 2      \* users.length >= 2 / userCount < 2

Users == 1..NUsers
NoUser == 0
Creator == 1         \* the participant who created the room (isHost = true)

VARIABLES
  \* shared store (useStateTogether)
  gameStarted, countdown, seconds, gameId, sessionLocked, allowedUsers,
  sessionEnded, waitingForPlayers, waitingTimer, hostUserId,
  \* roster (useConnectedUsers)
  users,
  \* per participant, local to the mounted component
  isHost,         \* the participants mounted with the isHost prop
  gameOver,       \* useState(false)
  isBeingKicked,  \* useState(false)
  depsCount,      \* dependency values the user-count effect last ran with
  depsGame,       \* gameId the new-game effect last ran with (0: not yet)
  depsCountdown,  \* dependency values the countdown effect last ran with
  startTimer,     \* a pending setTimeout(() => setGameStarted(true), 1000)
  flockTimers,    \* pending flock-member timeouts
  birds,          \* number of active entities (birdsRef.current.length)
  \* history, for stating the claims
  lockRoster,     \* the roster at the step that set sessionLocked to true
  resumedAt,      \* waitingTimer at the last resume from waiting in a round
  \* one client's entity simulation (SimSpec)
  containerScale, \* size of the game container, which getScaledSize reads
  birdRecs,       \* the BirdPosition records ever created, by record number
  birdsRef,       \* birdsRef.current: the active records, in array order
  birdPoolRef,    \* birdPoolRef.current: the free records, in array order
  spatialHashRef, \* spatialHashRef.current: cell key -> bucket (insertion order)
  lastRemoval,    \* history: how the last tick's last removal left the array
  reacquired,     \* history: records that createBird took from the pool as 'hit'
  \* inputs and results of the spawn draws (DrawSpec)
  random,         \* what Math.random() returns, in steps of 1 / RandomSteps
  drawSeconds,    \* seconds as createBird reads it
  drawnBird,      \* per mode: the name getRandomBird returned, "" before
  drawnBaseSpeed, \* per mode: baseSpeed in 1 / SpeedUnit, NoSpeed before
  drawnSpeed,     \* per mode: speed in 1 / SpeedUnit, NoSpeed before
  \* the shared hit histories and their replicas (HitSpec)
  hitLog,         \* the setState('hitHistories') messages, in the session's order
  applied,        \* per participant: how many of them its replica has applied
  hitsMade,       \* per participant: hits made so far (stands for the timestamp)
  \* the host client's round result and its saving (SaveSpec)
  hostGameOver,      \* gameOver
  hostGameId,        \* gameId
  myHitHistory,      \* myHitHistory.length (every hit scores at least 1 point)
  myTotalScore,      \* the host's entry of allTotalScores
  hasSavedGameData,  \* useState(false)
  isGameOverHandled, \* isGameOverHandled.current
  savesPending,      \* saveGameData promises not yet settled
  saveDeps,          \* dependency values the save effect last ran with
  resetDeps,         \* gameId the reset effect last ran with
  scoreDeps,         \* dependency values the total-score effect last ran with
  saveCalls,         \* history: saveGameData invocations since the round began
  \* catching entities (CatchSpec)
  catchMode,       \* "multi" or "single"
  entities,        \* birdsRef.current / birds: the entities by number of creation
  renderedBirds,   \* single-player: birds as of the last render (the closures' value)
  catchHistory,    \* myHitHistory / hitHistory, each record with its entity
  address,         \* useAccount().address is set (a wallet is connected)
  pendingRecords,  \* recordHitImmediate calls awaited and not yet settled
  lastRecord,      \* how the call settled last ended
  \* the seconds of wall-clock time in a round (ClockSpec)
  ticked,          \* the participants whose interval has fired in this second
  secondStart,     \* the shared seconds when this second began
  \* the rounds' results (ResultSpec)
  gameResults,     \* useStateTogether('gameResults', {}): gameId -> totals
  allTotalScores,  \* the participants' totalScore values
  handled,         \* the participants whose isGameOverHandled.current is true
  \* the replicas of hostUserId (ElectSpec)
  hostWrites,      \* the setHostUserId values, in the session's order
  hostSeen,        \* per participant: how many of them its replica has applied
  \* the way an entity enters the arena (SpawnSpec)
  spawned,         \* the entity createBird made last
  flockPending,    \* createFlock's timeouts not yet fired, with their side
  waveDivZero,     \* the Butterfly wave last divided by a velocityX of 0
  \* the entities' ids (IdSpec)
  idBirds,         \* birdsRef.current: each entity's id and status
  lastCatch        \* the entity last hit-tested and the one catchBird found

shared == <<gameStarted, countdown, seconds, gameId, sessionLocked, allowedUsers,
            sessionEnded, waitingForPlayers, waitingTimer, hostUserId>>
local == <<isHost, gameOver, isBeingKicked, depsCount, depsGame, depsCountdown,
           startTimer, flockTimers, birds>>
session == <<shared, users, local, lockRoster, resumedAt>>
simVars == <<containerScale, birdRecs, birdsRef, birdPoolRef, spatialHashRef,
             lastRemoval, reacquired>>
drawVars == <<random, drawSeconds, drawnBird, drawnBaseSpeed, drawnSpeed>>
hitVars == <<hitLog, applied, hitsMade>>
saveVars == <<hostGameOver, hostGameId, myHitHistory, myTotalScore, hasSavedGameData,
              isGameOverHandled, savesPending, saveDeps, resetDeps, scoreDeps, saveCalls>>
recordVars == <<address, pendingRecords, lastRecord>>
catchVars == <<catchMode, entities, renderedBirds, catchHistory, recordVars>>
clockVars == <<ticked, secondStart>>
resultVars == <<gameResults, allTotalScores, handled>>
electVars == <<hostWrites, hostSeen>>
spawnVars == <<spawned, flockPending, waveDivZero>>
idVars == <<idBirds, lastCatch>>
extraVars == <<electVars, spawnVars, idVars>>
vars == <<session, simVars, drawVars, hitVars, saveVars, catchVars, clockVars, resultVars,
          extraVars>>

\* What the operations of one part of the program leave alone.
outsideSession ==
  <<simVars, drawVars, hitVars, saveVars, catchVars, clockVars, resultVars, extraVars>>
outsideSim ==
  <<session, drawVars, hitVars, saveVars, catchVars, clockVars, resultVars, extraVars>>
outsideDraw ==
  <<session, simVars, hitVars, saveVars, catchVars, clockVars, resultVars, extraVars>>
outsideHit ==
  <<session, simVars, drawVars, saveVars, catchVars, clockVars, resultVars, extraVars>>
outsideSave ==
  <<session, simVars, drawVars, hitVars, catchVars, clockVars, resultVars, extraVars>>
outsideCatch ==
  <<session, simVars, drawVars, hitVars, saveVars, clockVars, resultVars, extraVars>>


\* ------------------------------------------------------------- helpers
userCount == Cardinality(users)

\* Variant of isCurrentHost: the isHost prop given at mount instead of the
\* elected hostUserId.
isHostProp(u) == u \in isHost

\* const isCurrentHost = myId === hostUserId
isCurrentHost(u) == u = hostUserId

\* Which of the component's four return statements renders for u.
Screen(u) ==
  IF waitingForPlayers /\ gameStarted /\ ~gameOver[u] THEN "waiting"
  ELSE IF gameOver[u] THEN "over"
  ELSE IF isBeingKicked[u] THEN "kicked"
  ELSE "main"

\* gameContainerRef.current is set only while the main screen is rendered.
ContainerMounted(u) == Screen(u) = "main"

\* A participant's phase is Active: the round is started, not over for it and
\* not waiting for players.
Active(u) == gameStarted /\ ~gameOver[u] /\ ~waitingForPlayers

\* The dependency arrays of the effects that must not re-run on every render.
CountDeps(u) == <<userCount, gameStarted, gameOver[u], waitingForPlayers>>
CountdownDeps == <<countdown, gameStarted>>

\* The local state of a component that is not mounted / a fresh mount.
FreshLocal(f, S, v) == [u \in Users |-> IF u \in S THEN v ELSE f[u]]

InitialHostCond(u) == u \in isHost /\ hostUserId = NoUser
HostTransferCond == userCount > 0 /\ hostUserId # NoUser /\ hostUserId \notin users
\* Variant of LockedCheckCond: a locked room excludes whoever renders in it.
LockedCheckCondAnyone(u) == sessionEnded \/ sessionLocked

LockedCheckCond(u) ==
  \/ sessionEnded
  \/ sessionLocked /\ allowedUsers # {} /\ u \notin allowedUsers

\* Some effect of u still has to run for the current values.
EffectPending(u) ==
  \/ InitialHostCond(u)
  \/ HostTransferCond
  \/ LockedCheckCond(u) /\ ~isBeingKicked[u]
  \/ depsCount[u] # CountDeps(u)
  \/ depsGame[u] # gameId
  \/ depsCountdown[u] # CountdownDeps

\* Every mounted component has flushed its effects; u, connected, may then
\* take a timer callback or a click.
AllSettled == \A v \in users : ~EffectPending(v)
Settled(u) == u \in users /\ AllSettled

\* The history variables: lockRoster follows sessionLocked, resumedAt holds
\* only in the state right after a resume.
LockHistory ==
  lockRoster' = IF ~sessionLocked /\ sessionLocked' THEN users ELSE lockRoster
NoResume == resumedAt' = -1

\* ---------------------------------------------------------------- Init
Init ==
  /\ gameStarted = FALSE
  /\ countdown = 0
  /\ seconds = RoundSeconds
  /\ gameId = 1
  /\ sessionLocked = FALSE
  /\ allowedUsers = {}
  /\ sessionEnded = FALSE
  /\ waitingForPlayers = FALSE
  /\ waitingTimer = WaitingSeconds
  /\ hostUserId = NoUser
  /\ users = {Creator}
  /\ isHost = {Creator}
  /\ gameOver = [u \in Users |-> FALSE]
  /\ isBeingKicked = [u \in Users |-> FALSE]
  /\ depsCount = [u \in Users |-> <<>>]
  /\ depsGame = [u \in Users |-> 0]
  /\ depsCountdown = [u \in Users |-> <<>>]
  /\ startTimer = [u \in Users |-> FALSE]
  /\ flockTimers = [u \in Users |-> 0]
  /\ birds = [u \in Users |-> 0]
  /\ lockRoster = {}
  /\ resumedAt = -1

\* ------------------------------------------------------- join and leave
\* All local state of the participants in S is dropped (unmount).
Unmount(S) ==
  /\ isHost' = isHost \ S
  /\ gameOver' = FreshLocal(gameOver, S, FALSE)
  /\ isBeingKicked' = FreshLocal(isBeingKicked, S, FALSE)
  /\ depsCount' = FreshLocal(depsCount, S, <<>>)
  /\ depsGame' = FreshLocal(depsGame, S, 0)
  /\ depsCountdown' = FreshLocal(depsCountdown, S, <<>>)
  /\ startTimer' = FreshLocal(startTimer, S, FALSE)
  /\ flockTimers' = FreshLocal(flockTimers, S, 0)
  /\ birds' = FreshLocal(birds, S, 0)

\* useEffect "Host: reset shared state on initial mount" (deps [isHost,
\* roomId], so it runs once, when the component mounts).
HostMountReset(asHost) ==
  IF asHost
    THEN /\ gameStarted' = FALSE
         /\ countdown' = 0
         /\ seconds' = RoundSeconds
         /\ gameId' = 1
         /\ sessionLocked' = FALSE
         /\ allowedUsers' = {}
         /\ sessionEnded' = FALSE
         /\ waitingForPlayers' = FALSE
         /\ waitingTimer' = WaitingSeconds
    ELSE UNCHANGED <<gameStarted, countdown, seconds, gameId, sessionLocked,
                     allowedUsers, sessionEnded, waitingForPlayers, waitingTimer>>

\* Variant of Join: the joiner mounts with isHost = true.
JoinAsHost(u) ==
  /\ u \notin users
  /\ AllSettled
  /\ users' = users \cup {u}
  /\ isHost' = isHost \cup {u}
  /\ HostMountReset(TRUE)
  /\ UNCHANGED <<hostUserId, gameOver, isBeingKicked, depsCount, depsGame,
                 depsCountdown, startTimer, flockTimers, birds, lockRoster>>
  /\ NoResume

\* handleJoinRoom: a participant enters the room with isHost = false.
Join(u) ==
  /\ u \notin users
  /\ AllSettled
  /\ users' = users \cup {u}
  /\ HostMountReset(FALSE)
  /\ UNCHANGED <<hostUserId, local, lockRoster>>
  /\ NoResume

\* leaveSession(); onBackToMenu() of one participant (or its disconnect).
Leave(u) ==
  /\ Settled(u)
  /\ users' = users \ {u}
  /\ Unmount({u})
  /\ UNCHANGED <<shared, lockRoster>>
  /\ NoResume

\* forceEndSession: leaveSession(); onBackToMenu() on every peer.
forceEndSession ==
  /\ users' = {}
  /\ Unmount(Users)

\* --------------------------------------------------------------- effects
\* The effects of one commit all read the values of that render and write
\* through setters; they write different state, so each is given as the new
\* values of what it writes.

\* Variant of HostEffects: the host-transfer effect elects nobody.
HostEffectsNoTransfer(u) ==
  IF InitialHostCond(u) THEN hostUserId' = u
  ELSE UNCHANGED hostUserId

\* useEffect "Set initial host" and useEffect "Host transfer logic": with the
\* host absent from the roster, a random member of the roster is elected.
HostEffects(u) ==
  IF InitialHostCond(u) THEN hostUserId' = u
  ELSE IF HostTransferCond THEN \E randomUser \in users : hostUserId' = randomUser
  ELSE UNCHANGED hostUserId

\* useEffect "Check if current user should be allowed to join".
LockedCheck(u) ==
  isBeingKicked' =
    [isBeingKicked EXCEPT ![u] = IF LockedCheckCond(u) THEN TRUE ELSE @]

\* useEffect "Handle user count changes and waiting logic"; it runs when one
\* of [users.length, gameStarted, gameOver, waitingForPlayers] has changed.
\* Variant of UserCountEffect: a resume keeps the value the timer had
\* counted down to.
UserCountEffectKeepTimer(u) ==
  LET run == depsCount[u] # CountDeps(u)
      playing == gameStarted /\ ~gameOver[u]
      startWaiting == run /\ playing /\ userCount < MinPlayers /\ ~waitingForPlayers
      stopWaiting == run /\ playing /\ userCount >= MinPlayers /\ waitingForPlayers
      overWaiting == run /\ gameOver[u] /\ userCount < MinPlayers
      overStop == run /\ gameOver[u] /\ userCount >= MinPlayers /\ waitingForPlayers
  IN /\ waitingForPlayers' =
          IF overStop THEN FALSE
          ELSE IF overWaiting THEN TRUE
          ELSE IF stopWaiting THEN FALSE
          ELSE IF startWaiting THEN TRUE
          ELSE waitingForPlayers
     /\ waitingTimer' = IF startWaiting THEN WaitingSeconds ELSE waitingTimer
     /\ resumedAt' = IF stopWaiting THEN waitingTimer ELSE -1
     /\ depsCount' = [depsCount EXCEPT ![u] = CountDeps(u)]

UserCountEffect(u) ==
  LET run == depsCount[u] # CountDeps(u)
      playing == gameStarted /\ ~gameOver[u]
      startWaiting == run /\ playing /\ userCount < MinPlayers
      stopWaiting == run /\ playing /\ userCount >= MinPlayers /\ waitingForPlayers
      overWaiting == run /\ gameOver[u] /\ userCount < MinPlayers
      overStop == run /\ gameOver[u] /\ userCount >= MinPlayers /\ waitingForPlayers
  IN /\ waitingForPlayers' =
          IF overStop THEN FALSE
          ELSE IF overWaiting THEN TRUE
          ELSE IF stopWaiting THEN FALSE
          ELSE IF startWaiting THEN TRUE
          ELSE waitingForPlayers
     /\ waitingTimer' =
          IF startWaiting \/ stopWaiting THEN WaitingSeconds ELSE waitingTimer
     /\ resumedAt' = IF stopWaiting THEN waitingTimer ELSE -1
     /\ depsCount' = [depsCount EXCEPT ![u] = CountDeps(u)]

\* useEffect "Reset save flag when new game starts"; it runs when gameId (or
\* myId) has changed.
NewGameEffect(u) ==
  /\ gameOver' = [gameOver EXCEPT ![u] = IF depsGame[u] # gameId THEN FALSE ELSE @]
  /\ depsGame' = [depsGame EXCEPT ![u] = gameId]

\* Variant of CountdownEffect: no start timeout is armed at countdown 1.
CountdownEffectNoStart(u) ==
  /\ depsCountdown' = [depsCountdown EXCEPT ![u] = CountdownDeps]
  /\ startTimer' = startTimer

\* useEffect "Countdown logic"; it runs when countdown or gameStarted has
\* changed, arms the decrement timeout (cleared by the cleanup) and, at
\* countdown 1, a second timeout that nothing clears.
CountdownEffect(u) ==
  LET run == depsCountdown[u] # CountdownDeps
  IN /\ depsCountdown' = [depsCountdown EXCEPT ![u] = CountdownDeps]
     /\ startTimer' = [startTimer EXCEPT
          ![u] = @ \/ (run /\ countdown > 0 /\ ~gameStarted /\ countdown = 1)]

\* A render of u's component with the effects it triggers.
Render(u) ==
  /\ u \in users
  /\ EffectPending(u)
  /\ HostEffects(u)
  /\ LockedCheck(u)
  /\ UserCountEffect(u)
  /\ NewGameEffect(u)
  /\ CountdownEffect(u)
  /\ UNCHANGED <<gameStarted, countdown, seconds, gameId, sessionLocked, allowedUsers,
                 sessionEnded, users, isHost, flockTimers, birds, lockRoster>>

\* ---------------------------------------------------------------- timers
\* Variant of DecrementArmed: the effect arms the timeout at any countdown.
DecrementArmedAnyCount(u) == Settled(u) /\ ~gameStarted

\* The decrement timeout of the countdown effect is armed for u.
DecrementArmed(u) == Settled(u) /\ countdown > 0 /\ ~gameStarted

\* setTimeout(() => setCountdown(c => c - 1), 1000)
CountdownTick(u) ==
  /\ DecrementArmed(u)
  /\ countdown' = countdown - 1
  /\ UNCHANGED <<gameStarted, seconds, gameId, sessionLocked, allowedUsers, sessionEnded,
                 waitingForPlayers, waitingTimer, hostUserId, users, local, lockRoster>>
  /\ NoResume

\* setTimeout(() => setGameStarted(true), 1000): scheduled after the
\* decrement timeout with the same delay, so it fires after it.
StartTimerFire(u) ==
  /\ Settled(u)
  /\ startTimer[u]
  /\ ~DecrementArmed(u)
  /\ gameStarted' = TRUE
  /\ startTimer' = [startTimer EXCEPT ![u] = FALSE]
  /\ UNCHANGED <<countdown, seconds, gameId, sessionLocked, allowedUsers, sessionEnded,
                 waitingForPlayers, waitingTimer, hostUserId, users, isHost, gameOver,
                 isBeingKicked, depsCount, depsGame, depsCountdown, flockTimers, birds,
                 lockRoster>>
  /\ NoResume

\* The 1-second timeouts armed at countdown 1 have all fired before any
\* 1-second timer armed after the round started fires.
NoStartTimer == \A v \in Users : ~startTimer[v]

\* Variant of RoundTick: only the callback that takes the clock from 1 to 0
\* sets gameOver.
RoundTickOverAtOne(u) ==
  /\ Settled(u)
  /\ gameStarted /\ ~gameOver[u]
  /\ NoStartTimer
  /\ IF seconds = 1
       THEN /\ gameOver' = [gameOver EXCEPT ![u] = TRUE]
            /\ seconds' = 0
       ELSE /\ seconds' = IF seconds = 0 THEN 0 ELSE seconds - 1
            /\ UNCHANGED gameOver
  /\ UNCHANGED <<gameStarted, countdown, gameId, sessionLocked, allowedUsers, sessionEnded,
                 waitingForPlayers, waitingTimer, hostUserId, users, isHost, isBeingKicked,
                 depsCount, depsGame, depsCountdown, startTimer, flockTimers, birds,
                 lockRoster>>
  /\ NoResume

\* useEffect "Timer logic": setInterval(() => setSeconds(prev => ...), 1000),
\* armed while gameStarted && !gameOver (waitingForPlayers is not consulted).
RoundTick(u) ==
  /\ Settled(u)
  /\ gameStarted /\ ~gameOver[u]
  /\ NoStartTimer
  /\ IF seconds <= 1
       THEN /\ gameOver' = [gameOver EXCEPT ![u] = TRUE]
            /\ seconds' = 0
       ELSE /\ seconds' = seconds - 1
            /\ UNCHANGED gameOver
  /\ UNCHANGED <<gameStarted, countdown, gameId, sessionLocked, allowedUsers, sessionEnded,
                 waitingForPlayers, waitingTimer, hostUserId, users, isHost, isBeingKicked,
                 depsCount, depsGame, depsCountdown, startTimer, flockTimers, birds,
                 lockRoster>>
  /\ NoResume

\* Variant of WaitingTick: the timer also runs for a participant whose round
\* is over.
WaitingTickInOver(u) ==
  /\ Settled(u)
  /\ waitingForPlayers /\ waitingTimer > 0 /\ gameStarted
  /\ NoStartTimer
  /\ IF waitingTimer <= 1
       THEN /\ waitingTimer' = 0
            /\ IF isCurrentHost(u)
                 THEN sessionEnded' = TRUE /\ forceEndSession
                 ELSE UNCHANGED <<sessionEnded, users, local>>
       ELSE /\ waitingTimer' = waitingTimer - 1
            /\ UNCHANGED <<sessionEnded, users, local>>
  /\ UNCHANGED <<gameStarted, countdown, seconds, gameId, sessionLocked, allowedUsers,
                 waitingForPlayers, hostUserId, lockRoster>>
  /\ NoResume

\* useEffect "Waiting timer logic": setTimeout(() => setWaitingTimer(prev => ...), 1000)
WaitingTick(u) ==
  /\ Settled(u)
  /\ waitingForPlayers /\ waitingTimer > 0 /\ gameStarted /\ ~gameOver[u]
  /\ NoStartTimer
  /\ IF waitingTimer <= 1
       THEN /\ waitingTimer' = 0
            /\ IF isCurrentHost(u)
                 THEN sessionEnded' = TRUE /\ forceEndSession
                 ELSE UNCHANGED <<sessionEnded, users, local>>
       ELSE /\ waitingTimer' = waitingTimer - 1
            /\ UNCHANGED <<sessionEnded, users, local>>
  /\ UNCHANGED <<gameStarted, countdown, seconds, gameId, sessionLocked, allowedUsers,
                 waitingForPlayers, hostUserId, lockRoster>>
  /\ NoResume

\* ------------------------------------------------------------ simulation
\* An entity is only counted here (birdsRef.current.length), and only for
\* the participant Observed: entities are private to a component.

\* createBird, called from a closure that captured gameOver and gameStarted:
\* the number of active entities afterwards.
createBird(u, cGameOver, cGameStarted) ==
  IF cGameOver \/ ~cGameStarted \/ ~ContainerMounted(u)
    THEN birds[u]
    ELSE birds[u] + 1

FlockSizes == 3..5   \* 3 + Math.floor(Math.random() * 3)

\* createFlock: one timeout per member, none of them kept for clearTimeout.
\* The pending timeouts afterwards (those beyond MaxFlock are not tracked).
createFlock(u, flockSize) ==
  IF gameOver[u] \/ ~gameStarted \/ ~ContainerMounted(u)
    THEN flockTimers[u]
    ELSE IF flockTimers[u] + flockSize > MaxFlock THEN MaxFlock
         ELSE flockTimers[u] + flockSize

\* useEffect "Bird spawning and animation": spawnLoop, run when the effect
\* runs and again from its own timeout (cleared by the cleanup).
SpawnLoop(u) ==
  /\ u = Observed
  /\ Settled(u)
  /\ ~(~gameStarted \/ gameOver[u] \/ waitingForPlayers)
  /\ \/ /\ \E flockSize \in FlockSizes :
             flockTimers' = [flockTimers EXCEPT ![u] = createFlock(u, flockSize)]
        /\ UNCHANGED birds
     \/ /\ birds[u] < MaxBirds
        /\ birds' = [birds EXCEPT ![u] = createBird(u, gameOver[u], gameStarted)]
        /\ UNCHANGED flockTimers
  /\ UNCHANGED <<shared, users, isHost, gameOver, isBeingKicked, depsCount, depsGame,
                 depsCountdown, startTimer, lockRoster>>
  /\ NoResume

\* A flock member's timeout fires: createBird from the closure of the render
\* that created the flock, in which gameStarted && !gameOver held.
FlockMemberFire(u) ==
  /\ u = Observed
  /\ Settled(u)
  /\ flockTimers[u] > 0
  /\ birds[u] < MaxBirds
  /\ flockTimers' = [flockTimers EXCEPT ![u] = @ - 1]
  /\ birds' = [birds EXCEPT ![u] = createBird(u, FALSE, TRUE)]
  /\ UNCHANGED <<shared, users, isHost, gameOver, isBeingKicked, depsCount, depsGame,
                 depsCountdown, startTimer, lockRoster>>
  /\ NoResume

\* gameLoop: the simulation step runs under
\* gameStarted && !gameOver && !waitingForPlayers with the canvas mounted; an
\* entity that leaves the arena is released.
GameLoopStep(u) ==
  /\ u = Observed
  /\ Settled(u)
  /\ ContainerMounted(u)
  /\ gameStarted /\ ~gameOver[u] /\ ~waitingForPlayers
  /\ birds[u] > 0
  /\ birds' = [birds EXCEPT ![u] = @ - 1]
  /\ UNCHANGED <<shared, users, isHost, gameOver, isBeingKicked, depsCount, depsGame,
                 depsCountdown, startTimer, flockTimers, lockRoster>>
  /\ NoResume

\* -------------------------------------------------------------- handlers
\* The lobby overlay shows "Start Game".
StartButtonVisible(u) ==
  /\ Screen(u) = "main"
  /\ ~gameStarted /\ ~gameOver[u]
  /\ userCount >= MinPlayers
  /\ isCurrentHost(u) /\ countdown = 0

\* Variant of HandleStartGame: the lock is set without capturing the roster.
HandleStartGameNoCapture(u) ==
  /\ Settled(u)
  /\ StartButtonVisible(u)
  /\ isCurrentHost(u) /\ userCount >= MinPlayers
  /\ sessionLocked' = TRUE
  /\ countdown' = CountdownStart
  /\ LockHistory
  /\ UNCHANGED <<gameStarted, seconds, gameId, allowedUsers, sessionEnded,
                 waitingForPlayers, waitingTimer, hostUserId, users, local>>
  /\ NoResume

\* Variant of HandleStartGame: every start captures the roster again.
HandleStartGameRelock(u) ==
  /\ Settled(u)
  /\ StartButtonVisible(u)
  /\ isCurrentHost(u) /\ userCount >= MinPlayers
  /\ sessionLocked' = TRUE /\ allowedUsers' = users
  /\ countdown' = CountdownStart
  /\ LockHistory
  /\ UNCHANGED <<gameStarted, seconds, gameId, sessionEnded, waitingForPlayers,
                 waitingTimer, hostUserId, users, local>>
  /\ NoResume

\* Variant of HandleStartGame: neither the button nor the handler asks for
\* the host or for two participants.
HandleStartGameAnyone(u) ==
  /\ Settled(u)
  /\ Screen(u) = "main"
  /\ ~gameStarted /\ ~gameOver[u]
  /\ countdown = 0
  /\ IF ~sessionLocked
       THEN sessionLocked' = TRUE /\ allowedUsers' = users
       ELSE UNCHANGED <<sessionLocked, allowedUsers>>
  /\ countdown' = CountdownStart
  /\ LockHistory
  /\ UNCHANGED <<gameStarted, seconds, gameId, sessionEnded, waitingForPlayers,
                 waitingTimer, hostUserId, users, local>>
  /\ NoResume

\* handleStartGame
HandleStartGame(u) ==
  /\ Settled(u)
  /\ StartButtonVisible(u)
  /\ isCurrentHost(u) /\ userCount >= MinPlayers
  /\ IF ~sessionLocked
       THEN sessionLocked' = TRUE /\ allowedUsers' = users
       ELSE UNCHANGED <<sessionLocked, allowedUsers>>
  /\ countdown' = CountdownStart
  /\ LockHistory
  /\ UNCHANGED <<gameStarted, seconds, gameId, sessionEnded, waitingForPlayers,
                 waitingTimer, hostUserId, users, local>>
  /\ NoResume

\* "End Session" is offered to the host on the waiting, game-over and main screens.
EndButtonVisible(u) == isCurrentHost(u) /\ Screen(u) # "kicked"

\* Variant of HandleEndSession: the button and the handler are open to every
\* participant.
HandleEndSessionAnyone(u) ==
  /\ Settled(u)
  /\ Screen(u) # "kicked"
  /\ sessionEnded' = TRUE
  /\ forceEndSession
  /\ UNCHANGED <<gameStarted, countdown, seconds, gameId, sessionLocked, allowedUsers,
                 waitingForPlayers, waitingTimer, hostUserId, lockRoster>>
  /\ NoResume

\* handleEndSession
HandleEndSession(u) ==
  /\ Settled(u)
  /\ EndButtonVisible(u)
  /\ isCurrentHost(u)
  /\ sessionEnded' = TRUE
  /\ forceEndSession
  /\ UNCHANGED <<gameStarted, countdown, seconds, gameId, sessionLocked, allowedUsers,
                 waitingForPlayers, waitingTimer, hostUserId, lockRoster>>
  /\ NoResume

\* The game-over screen shows "Start Another Game".
NextButtonVisible(u) ==
  Screen(u) = "over" /\ userCount >= MinPlayers /\ isCurrentHost(u)

\* Variant of SetupNextGame: the clock is left where the round ended.
SetupNextGameKeepClock(u) ==
  /\ Settled(u)
  /\ NextButtonVisible(u)
  /\ isCurrentHost(u)
  /\ gameId < MaxGameId
  /\ gameId' = gameId + 1
  /\ gameOver' = [gameOver EXCEPT ![u] = FALSE]
  /\ gameStarted' = FALSE
  /\ countdown' = 0
  /\ UNCHANGED <<seconds, sessionLocked, allowedUsers, sessionEnded, waitingForPlayers,
                 waitingTimer, hostUserId, users, isHost, isBeingKicked, depsCount,
                 depsGame, depsCountdown, startTimer, flockTimers, birds, lockRoster>>
  /\ NoResume

\* setupNextGame
SetupNextGame(u) ==
  /\ Settled(u)
  /\ NextButtonVisible(u)
  /\ isCurrentHost(u)
  /\ gameId < MaxGameId
  /\ gameId' = gameId + 1
  /\ gameOver' = [gameOver EXCEPT ![u] = FALSE]
  /\ gameStarted' = FALSE
  /\ countdown' = 0
  /\ seconds' = RoundSeconds
  /\ UNCHANGED <<sessionLocked, allowedUsers, sessionEnded, waitingForPlayers,
                 waitingTimer, hostUserId, users, isHost, isBeingKicked, depsCount,
                 depsGame, depsCountdown, startTimer, flockTimers, birds, lockRoster>>
  /\ NoResume

\* =============================================== one client's simulation
\* The entity simulation of one multiplayer client whose round is Active and
\* whose game area is mounted.  Lengths are in model units; the container's
\* size, which getScaledSize reads at every call, changes with Resize.

\* ---------------------------------------------------------------- bounds
MaxRecords == 2      \* BirdPosition records ever created
MaxScale == 2        \* container sizes 1..MaxScale
BaseWidth == 1       \* clientWidth at size 1
BaseHeight == 1      \* clientHeight at size 1
SpawnDistance == 1   \* spawnDistance (at most 100 px in the code)
OffMargin == 1       \* the band of 150 px around the container
FallMargin == 1      \* the 100 px below the container
Gravity == 1         \* gravity (0.1 px per frame per frame in the code)
MaxQueryRadius == 2  \* radii 0..MaxQueryRadius handed to queryNearbyBirds

\* ------------------------------------------------------ program constants
HitVelocityY == 2    \* bird.velocityY = 2

Records == 1..MaxRecords
NoKey == <<>>        \* cellKey: undefined

width == BaseWidth * containerScale
height == BaseHeight * containerScale

\* getScaledSize(32): the hit radius grows with the container.
hitRadius == containerScale

Max(a, b) == IF a >= b THEN a ELSE b
Min(a, b) == IF a <= b THEN a ELSE b
Range(q) == {q[i] : i \in 1..Len(q)}

\* Math.max(1, hitRadius * 2)
CellSizeOf(radius) == Max(1, radius * 2)

\* getCellKeyFromXY: `${Math.floor(x / cellSize)},${Math.floor(y / cellSize)}`
getCellKeyFromXY(x, y, cellSize) == <<x \div cellSize, y \div cellSize>>

\* The record a createBird without a pooled record starts from.
NewRecord ==
  [x |-> 0, y |-> 0, velocityX |-> 0, velocityY |-> 0, status |-> "flying",
   active |-> FALSE, cellKey |-> NoKey]

\* The refs an operation reads and writes.
SimState ==
  [recs |-> birdRecs, birds |-> birdsRef, pool |-> birdPoolRef, hash |-> spatialHashRef]

\* Set.add, Set.delete on a bucket kept in insertion order.
BucketAdd(bucket, b) == IF b \in Range(bucket) THEN bucket ELSE Append(bucket, b)
BucketDelete(bucket, b) == SelectSeq(bucket, LAMBDA e : e # b)

\* Map.set, Map.delete
HashSet(hash, key, bucket) ==
  [k \in DOMAIN hash \cup {key} |-> IF k = key THEN bucket ELSE hash[k]]
HashDelete(hash, key) == [k \in DOMAIN hash \ {key} |-> hash[k]]

\* The part of spatialInsert and spatialUpdateIfMoved that puts b under key.
PutInBucket(st, b, key) ==
  [st EXCEPT !.recs[b].cellKey = key,
             !.hash = HashSet(st.hash, key,
                        BucketAdd(IF key \in DOMAIN st.hash THEN st.hash[key] ELSE <<>>, b))]

\* Variant of TakeFromBucket: the bucket is kept when it becomes empty.
TakeFromBucketKeepEmpty(hash, b, key) ==
  IF key \notin DOMAIN hash THEN hash
  ELSE HashSet(hash, key, BucketDelete(hash[key], b))

\* prev?.delete(bird); if (prev && prev.size === 0) delete the bucket
TakeFromBucket(hash, b, key) ==
  IF key \notin DOMAIN hash THEN hash
  ELSE LET prev == BucketDelete(hash[key], b)
       IN IF prev = <<>> THEN HashDelete(hash, key) ELSE HashSet(hash, key, prev)

\* spatialInsert that adds to the bucket without setting bird.cellKey.
spatialInsertNoKey(st, b, cellSize) ==
  LET key == getCellKeyFromXY(st.recs[b].x, st.recs[b].y, cellSize)
  IN [st EXCEPT !.hash = HashSet(st.hash, key,
                           BucketAdd(IF key \in DOMAIN st.hash THEN st.hash[key] ELSE <<>>,
                                     b))]

spatialInsert(st, b, cellSize) ==
  PutInBucket(st, b, getCellKeyFromXY(st.recs[b].x, st.recs[b].y, cellSize))

\* spatialUpdateIfMoved that leaves the record in its previous bucket.
spatialUpdateIfMovedNoDelete(st, b, cellSize) ==
  LET nextKey == getCellKeyFromXY(st.recs[b].x, st.recs[b].y, cellSize)
      cellKey == st.recs[b].cellKey
  IN IF cellKey = nextKey THEN st ELSE PutInBucket(st, b, nextKey)

spatialUpdateIfMoved(st, b, cellSize) ==
  LET nextKey == getCellKeyFromXY(st.recs[b].x, st.recs[b].y, cellSize)
      cellKey == st.recs[b].cellKey
  IN IF cellKey = nextKey THEN st
     ELSE PutInBucket(
            [st EXCEPT !.hash = IF cellKey # NoKey
                                  THEN TakeFromBucket(st.hash, b, cellKey)
                                  ELSE st.hash],
            b, nextKey)

spatialRemove(st, b) ==
  LET cellKey == st.recs[b].cellKey
  IN IF cellKey = NoKey THEN st
     ELSE [st EXCEPT !.hash = TakeFromBucket(st.hash, b, cellKey),
                     !.recs[b].cellKey = NoKey]

\* The 3 x 3 block of cells in the order the two loops visit it (dy outside).
BlockOffsets ==
  << <<-1, -1>>, <<0, -1>>, <<1, -1>>,
     <<-1, 0>>,  <<0, 0>>,  <<1, 0>>,
     <<-1, 1>>,  <<0, 1>>,  <<1, 1>> >>

RECURSIVE QueryFrom(_, _, _, _, _)
QueryFrom(recs, hash, ix, iy, n) ==
  IF n > Len(BlockOffsets) THEN <<>>
  ELSE LET key == <<ix + BlockOffsets[n][1], iy + BlockOffsets[n][2]>>
           found == IF key \in DOMAIN hash
                      THEN SelectSeq(hash[key], LAMBDA b : recs[b].status = "flying")
                      ELSE <<>>
       IN found \o QueryFrom(recs, hash, ix, iy, n + 1)

\* queryNearbyBirds looking into the cell of (x, y) only.
queryOwnCell(st, x, y, radius) ==
  LET cellSize == CellSizeOf(radius)
      key == <<x \div cellSize, y \div cellSize>>
  IN IF key \in DOMAIN st.hash
       THEN SelectSeq(st.hash[key], LAMBDA b : st.recs[b].status = "flying")
       ELSE <<>>

\* queryNearbyBirds: the flying records in the 3 x 3 block around (x, y),
\* the cells being those of the cell size derived from radius.
queryNearbyBirds(st, x, y, radius) ==
  LET cellSize == CellSizeOf(radius)
  IN QueryFrom(st.recs, st.hash, x \div cellSize, y \div cellSize, 1)

\* A removal of birds[i] that does not push the record to the pool.
ReleaseAtNoPush(st, i) ==
  LET b == st.birds[i]
      removed == spatialRemove(st, b)
      last == st.birds[Len(st.birds)]
      popped == SubSeq(st.birds, 1, Len(st.birds) - 1)
  IN [removed EXCEPT !.recs[b].active = FALSE,
                     !.birds = IF i - 1 < Len(popped)
                                 THEN [popped EXCEPT ![i] = last]
                                 ELSE popped]

\* A removal of birds[i] that pushes to the pool without spatialRemove.
ReleaseAtNoRemove(st, i) ==
  LET b == st.birds[i]
      last == st.birds[Len(st.birds)]
      popped == SubSeq(st.birds, 1, Len(st.birds) - 1)
  IN [st EXCEPT !.recs[b].active = FALSE,
                !.pool = Append(st.pool, b),
                !.birds = IF i - 1 < Len(popped)
                            THEN [popped EXCEPT ![i] = last]
                            ELSE popped]

\* gameLoop's removal of birds[i]: spatialRemove, active = false, push to
\* the pool, pop the last element and put it at i unless i was the last.
ReleaseAt(st, i) ==
  LET b == st.birds[i]
      removed == spatialRemove(st, b)
      last == st.birds[Len(st.birds)]
      popped == SubSeq(st.birds, 1, Len(st.birds) - 1)
  IN [removed EXCEPT !.recs[b].active = FALSE,
                     !.pool = Append(st.pool, b),
                     !.birds = IF i - 1 < Len(popped)
                                 THEN [popped EXCEPT ![i] = last]
                                 ELSE popped]

\* Variant of StepBird: a falling entity keeps its velocityY (no gravity).
StepBirdNoGravity(st, i, cellSize) ==
  LET b == st.birds[i]
      bird == st.recs[b]
  IN IF bird.status = "hit"
       THEN LET velocityY == bird.velocityY
                y == bird.y + velocityY
                moved == spatialUpdateIfMoved(
                           [st EXCEPT !.recs[b].velocityY = velocityY, !.recs[b].y = y],
                           b, cellSize)
            IN IF y <= height + FallMargin
                 THEN [st |-> moved, kept |-> TRUE]
                 ELSE [st |-> ReleaseAt(moved, i), kept |-> FALSE]
       ELSE LET newX == bird.x + bird.velocityX
                newY == bird.y + bird.velocityY
            IN IF /\ newX >= -OffMargin /\ newX <= width + OffMargin
                  /\ newY >= -OffMargin /\ newY <= height + OffMargin
                 THEN [st |-> spatialUpdateIfMoved(
                                [st EXCEPT !.recs[b].x = newX, !.recs[b].y = newY],
                                b, cellSize),
                       kept |-> TRUE]
                 ELSE [st |-> ReleaseAt(st, i), kept |-> FALSE]

\* One iteration of the simulation loop on birds[i]: the state afterwards
\* and whether birds[i] was kept (i++) or removed.
StepBird(st, i, cellSize) ==
  LET b == st.birds[i]
      bird == st.recs[b]
  IN IF bird.status = "hit"
       THEN LET velocityY == bird.velocityY + Gravity
                y == bird.y + velocityY
                moved == spatialUpdateIfMoved(
                           [st EXCEPT !.recs[b].velocityY = velocityY, !.recs[b].y = y],
                           b, cellSize)
            IN IF y <= height + FallMargin
                 THEN [st |-> moved, kept |-> TRUE]
                 ELSE [st |-> ReleaseAt(moved, i), kept |-> FALSE]
       ELSE LET newX == bird.x + bird.velocityX
                newY == bird.y + bird.velocityY
            IN IF /\ newX >= -OffMargin /\ newX <= width + OffMargin
                  /\ newY >= -OffMargin /\ newY <= height + OffMargin
                 THEN [st |-> spatialUpdateIfMoved(
                                [st EXCEPT !.recs[b].x = newX, !.recs[b].y = newY],
                                b, cellSize),
                       kept |-> TRUE]
                 ELSE [st |-> ReleaseAt(st, i), kept |-> FALSE]

\* for (let i = 0; i < birdsRef.current.length;) { ... }: the state after the
\* loop, with how the last removal left the array ("last": the removed
\* record was the last element, "middle": the last element took its place).
RECURSIVE SimLoop(_, _, _, _)
SimLoop(st, i, cellSize, removal) ==
  IF i > Len(st.birds) THEN [st |-> st, removal |-> removal]
  ELSE LET r == StepBird(st, i, cellSize)
       IN IF r.kept THEN SimLoop(r.st, i + 1, cellSize, removal)
          ELSE SimLoop(r.st, i, cellSize,
                       IF i = Len(st.birds) THEN "last" ELSE "middle")

\* createBird reading the last pooled record without popping it.
createBirdAtPeek(st, x, y, velocityX, velocityY) ==
  LET usePool == st.pool # <<>>
      b == IF usePool THEN st.pool[Len(st.pool)] ELSE Cardinality(DOMAIN st.recs) + 1
      instance == IF usePool THEN st.recs[b] ELSE NewRecord
      filled == [instance EXCEPT !.x = x, !.y = y,
                                 !.velocityX = velocityX, !.velocityY = velocityY,
                                 !.status = "flying", !.active = TRUE, !.cellKey = NoKey]
      pushed == [recs |-> [r \in DOMAIN st.recs \cup {b} |->
                              IF r = b THEN filled ELSE st.recs[r]],
                 birds |-> Append(st.birds, b),
                 pool |-> st.pool,
                 hash |-> st.hash]
  IN spatialInsert(pushed, b, CellSizeOf(hitRadius))

\* createBird from "Reuse from pool if available, else create" on, the
\* position and velocity having been computed.
createBirdAt(st, x, y, velocityX, velocityY) ==
  LET usePool == st.pool # <<>>
      b == IF usePool THEN st.pool[Len(st.pool)] ELSE Cardinality(DOMAIN st.recs) + 1
      instance == IF usePool THEN st.recs[b] ELSE NewRecord
      filled == [instance EXCEPT !.x = x, !.y = y,
                                 !.velocityX = velocityX, !.velocityY = velocityY,
                                 !.status = "flying", !.active = TRUE, !.cellKey = NoKey]
      pushed == [recs |-> [r \in DOMAIN st.recs \cup {b} |->
                              IF r = b THEN filled ELSE st.recs[r]],
                 birds |-> Append(st.birds, b),
                 pool |-> IF usePool THEN SubSeq(st.pool, 1, Len(st.pool) - 1) ELSE st.pool,
                 hash |-> st.hash]
  IN spatialInsert(pushed, b, CellSizeOf(hitRadius))

\* catchBird on a record: find it among the active records; if it is
\* flying it becomes 'hit' with velocity (0, 2).
catchBird(recs, activeBirds, b) ==
  IF b \in Range(activeBirds) /\ recs[b].status = "flying"
    THEN [recs EXCEPT ![b].status = "hit", ![b].velocityX = 0, ![b].velocityY = HitVelocityY]
    ELSE recs

\* dx * dx + dy * dy < r2
WithinRadius(x, y, bird, radius) ==
  (x - bird.x) * (x - bird.x) + (y - bird.y) * (y - bird.y) < radius * radius

\* The loop over the candidates in handleGameAreaClick and onPinch.
RECURSIVE CatchAll(_, _, _, _, _, _)
CatchAll(recs, activeBirds, candidates, x, y, radius) ==
  IF candidates = <<>> THEN recs
  ELSE LET b == Head(candidates)
       IN CatchAll(IF WithinRadius(x, y, recs[b], radius)
                     THEN catchBird(recs, activeBirds, b) ELSE recs,
                   activeBirds, Tail(candidates), x, y, radius)

\* The records a click or pinch at (x, y) hits.
HitBy(st, x, y) ==
  {b \in Range(queryNearbyBirds(st, x, y, hitRadius)) :
     /\ WithinRadius(x, y, st.recs[b], hitRadius)
     /\ b \in Range(st.birds)}

\* Single-player: the hit radius getScaledSize(24) and half the side of an
\* entity's element, getScaledSize(96) / 2, twice that radius.
hitRadiusSingle == containerScale
BirdBoxHalf == 2 * hitRadiusSingle

\* Single-player: the index in birds of the entity element a click at
\* (x, y) lands on, the later elements lying above the earlier; 0 if none.
ClickTarget(recs, activeBirds, x, y) ==
  LET under == {i \in 1..Len(activeBirds) :
                  /\ x >= recs[activeBirds[i]].x - BirdBoxHalf
                  /\ x < recs[activeBirds[i]].x + BirdBoxHalf
                  /\ y >= recs[activeBirds[i]].y - BirdBoxHalf
                  /\ y < recs[activeBirds[i]].y + BirdBoxHalf}
  IN IF under = {} THEN 0 ELSE CHOOSE i \in under : \A j \in under : j <= i

\* Single-player: the records a click at (x, y) hits: the flying entity
\* whose element is clicked (its onClick) and, the click bubbling to the
\* game area, every flying entity with distance < hitRadius.
HitBySingle(recs, activeBirds, x, y) ==
  LET target == ClickTarget(recs, activeBirds, x, y)
      byElement == IF target # 0 /\ recs[activeBirds[target]].status = "flying"
                     THEN {activeBirds[target]} ELSE {}
      byDistance == {b \in Range(activeBirds) :
                       /\ recs[b].status = "flying"
                       /\ WithinRadius(x, y, recs[b], hitRadiusSingle)}
  IN byElement \cup byDistance

Clamp(lo, hi, v) == Max(lo, Min(hi, v))

\* The cell sizes the index is keyed with: Math.max(1, hitRadius * 2) for
\* the hit radii of the container sizes.
CellSizes == {CellSizeOf(scale) : scale \in 1..MaxScale}

\* The buckets that hold b, and whether no bucket holds a record twice.
BucketsOf(hash, b) == {k \in DOMAIN hash : b \in Range(hash[k])}
NoDuplicates(hash) ==
  \A k \in DOMAIN hash :
    \A i, j \in 1..Len(hash[k]) : hash[k][i] = hash[k][j] => i = j

SimInit ==
  /\ containerScale = 1
  /\ birdRecs = <<>>
  /\ birdsRef = <<>>
  /\ birdPoolRef = <<>>
  /\ spatialHashRef = <<>>
  /\ lastRemoval = "none"
  /\ reacquired = {}

SetSim(st) ==
  /\ birdRecs' = st.recs
  /\ birdsRef' = st.birds
  /\ birdPoolRef' = st.pool
  /\ spatialHashRef' = st.hash

\* createBird in an Active round: the side, the place on it and the
\* direction of flight are drawn; the flight goes to the opposite side.
SpawnBird ==
  /\ birdPoolRef # <<>> \/ Cardinality(DOMAIN birdRecs) < MaxRecords
  /\ \E side \in 0..3, along \in 0..Max(width, height) :
       LET yOnSide == Clamp(SpawnDistance, height - SpawnDistance, Min(along, height))
           xOnSide == Clamp(SpawnDistance, width - SpawnDistance, Min(along, width))
           x == CASE side = 0 -> -SpawnDistance
                  [] side = 1 -> width + SpawnDistance
                  [] OTHER -> xOnSide
           y == CASE side = 2 -> -SpawnDistance
                  [] side = 3 -> height + SpawnDistance
                  [] OTHER -> yOnSide
           velocityX == CASE side = 0 -> 1 [] side = 1 -> -1 [] OTHER -> 0
           velocityY == CASE side = 2 -> 1 [] side = 3 -> -1 [] OTHER -> 0
       IN SetSim(createBirdAt(SimState, x, y, velocityX, velocityY))
  /\ reacquired' = IF /\ birdPoolRef # <<>>
                        /\ birdRecs[birdPoolRef[Len(birdPoolRef)]].status = "hit"
                     THEN reacquired \cup {birdPoolRef[Len(birdPoolRef)]}
                     ELSE reacquired
  /\ UNCHANGED <<containerScale, lastRemoval>>
  /\ UNCHANGED outsideSim

\* One frame of gameLoop in an Active round with the container mounted.
GameLoopTick ==
  /\ birdsRef # <<>>
  /\ LET r == SimLoop(SimState, 1, CellSizeOf(hitRadius), "none")
     IN SetSim(r.st) /\ lastRemoval' = r.removal
  /\ UNCHANGED <<containerScale, reacquired>>
  /\ UNCHANGED outsideSim

\* handleGameAreaClick / onPinch at (x, y) in the container.
HandleGameAreaClick ==
  /\ \E x \in 0..width, y \in 0..height :
       /\ birdRecs' = CatchAll(birdRecs, birdsRef,
                               queryNearbyBirds(SimState, x, y, hitRadius), x, y, hitRadius)
       /\ birdRecs' # birdRecs
  /\ UNCHANGED <<containerScale, birdsRef, birdPoolRef, spatialHashRef, lastRemoval,
                 reacquired>>
  /\ UNCHANGED outsideSim

\* The window is resized: getScaledSize and clientWidth / clientHeight
\* give other values from now on.
Resize ==
  /\ \E scale \in 1..MaxScale : scale # containerScale /\ containerScale' = scale
  /\ UNCHANGED <<birdRecs, birdsRef, birdPoolRef, spatialHashRef, lastRemoval, reacquired>>
  /\ UNCHANGED outsideSim

SimNext ==
  \/ SpawnBird
  \/ GameLoopTick
  \/ HandleGameAreaClick
  \/ Resize

\* ==================================================== the spawn draws
\* getRandomBird and the speed computation of createBird, multiplayer and
\* single-player, applied to every value of Math.random() and seconds.

RandomSteps == 20    \* Math.random() is k / RandomSteps, k in 0..RandomSteps - 1
FullRound == 60      \* seconds / 60

\* Speeds are counted in 1 / SpeedUnit, which makes 1.5, seconds / 60 and
\* k / RandomSteps whole numbers of units.
SpeedUnit == 2 * FullRound * RandomSteps

\* No speed computed yet.
NoSpeed == -SpeedUnit

Modes == {"multi", "single"}

\* r < h / 100 for r in steps of Math.random() (0.6, 0.85, 0.95)
Below(r, h) == r * 100 < h * RandomSteps

\* getRandomBird with <= in place of <.
getRandomBirdInclusive(r) ==
  IF r * 100 <= 60 * RandomSteps THEN "Bee"
  ELSE IF r * 100 <= 85 * RandomSteps THEN "Butterfly"
  ELSE IF r * 100 <= 95 * RandomSteps THEN "Blue Mouch"
  ELSE "Mouch"

\* getRandomBird (multiplayer)
getRandomBird(r) ==
  IF Below(r, 60) THEN "Bee"
  ELSE IF Below(r, 85) THEN "Butterfly"
  ELSE IF Below(r, 95) THEN "Blue Mouch"
  ELSE "Mouch"

\* getRandomBird (single-player)
getRandomBirdSingle(r) ==
  IF Below(r, 60) THEN "Bee"
  ELSE IF Below(r, 85) THEN "Butterfly"
  ELSE IF Below(r, 95) THEN "Blue Mouch"
  ELSE "Mouch"

\* 1.5 in speed units
OneAndAHalf == (3 * SpeedUnit) \div 2

\* baseSpeed with timeProgress = seconds / 60 instead of 1 - seconds / 60.
baseSpeedRising(s) == OneAndAHalf + (s * OneAndAHalf) \div FullRound

\* timeProgress = 1 - seconds / 60; baseSpeed = 1.5 + timeProgress * 1.5
\* (multiplayer)
baseSpeed(s) == OneAndAHalf + ((FullRound - s) * OneAndAHalf) \div FullRound

\* the same two lines of the single-player createBird
baseSpeedSingle(s) == OneAndAHalf + ((FullRound - s) * OneAndAHalf) \div FullRound

\* speed = baseSpeed + Math.random() * 1.0
speedOf(base, r) == base + (r * SpeedUnit) \div RandomSteps

DrawInit ==
  /\ random \in 0..(RandomSteps - 1)
  /\ drawSeconds \in 0..FullRound
  /\ drawnBird = [m \in Modes |-> ""]
  /\ drawnBaseSpeed = [m \in Modes |-> NoSpeed]
  /\ drawnSpeed = [m \in Modes |-> NoSpeed]

\* const birdType = getRandomBird() in the multiplayer createBird
GetRandomBird ==
  /\ drawnBird["multi"] = ""
  /\ drawnBird' = [drawnBird EXCEPT !["multi"] = getRandomBird(random)]
  /\ UNCHANGED <<random, drawSeconds, drawnBaseSpeed, drawnSpeed>>
  /\ UNCHANGED outsideDraw

\* const birdType = getRandomBird() in the single-player createBird
GetRandomBirdSingle ==
  /\ drawnBird["single"] = ""
  /\ drawnBird' = [drawnBird EXCEPT !["single"] = getRandomBirdSingle(random)]
  /\ UNCHANGED <<random, drawSeconds, drawnBaseSpeed, drawnSpeed>>
  /\ UNCHANGED outsideDraw

\* timeProgress, baseSpeed and speed in the multiplayer createBird
CreateBirdSpeed ==
  /\ drawnBaseSpeed["multi"] = NoSpeed
  /\ drawnBaseSpeed' = [drawnBaseSpeed EXCEPT !["multi"] = baseSpeed(drawSeconds)]
  /\ drawnSpeed' = [drawnSpeed EXCEPT !["multi"] = speedOf(baseSpeed(drawSeconds), random)]
  /\ UNCHANGED <<random, drawSeconds, drawnBird>>
  /\ UNCHANGED outsideDraw

\* timeProgress, baseSpeed and speed in the single-player createBird
CreateBirdSpeedSingle ==
  /\ drawnBaseSpeed["single"] = NoSpeed
  /\ drawnBaseSpeed' = [drawnBaseSpeed EXCEPT !["single"] = baseSpeedSingle(drawSeconds)]
  /\ drawnSpeed' =
       [drawnSpeed EXCEPT !["single"] = speedOf(baseSpeedSingle(drawSeconds), random)]
  /\ UNCHANGED <<random, drawSeconds, drawnBird>>
  /\ UNCHANGED outsideDraw

DrawNext ==
  \/ GetRandomBird
  \/ GetRandomBirdSingle
  \/ CreateBirdSpeed
  \/ CreateBirdSpeedSingle

\* The draws not yet made (the session's and the simulation's state).
NoDraws ==
  /\ random = 0 /\ drawSeconds = FullRound
  /\ drawnBird = [m \in Modes |-> ""]
  /\ drawnBaseSpeed = [m \in Modes |-> NoSpeed]
  /\ drawnSpeed = [m \in Modes |-> NoSpeed]

\* ============================================ the shared hit histories
\* useStateTogether('hitHistories', {}): one shared value holding every
\* participant's history.  A participant's setter computes the new value
\* from the value its replica holds and publishes it; the published values
\* reach every replica in one order, each replacing the value held.  The
\* participants are those of an Active round.

MaxHits == 2         \* hits per participant
MaxHitters == 2      \* participants of the round: 1..MaxHitters

Hitters == 1..MaxHitters

\* prev[id] || []
NoHistories == [u \in Hitters |-> <<>>]

\* The value participant u's replica holds.
LocalHistories(u) == IF applied[u] = 0 THEN NoHistories ELSE hitLog[applied[u]].value

\* The value every replica holds once it has applied all that was published.
SharedHistories == IF hitLog = <<>> THEN NoHistories ELSE hitLog[Len(hitLog)].value

\* The records participant u has produced so far, in order.
ProducedBy(u) == [i \in 1..hitsMade[u] |-> [by |-> u, timestamp |-> i]]

HitInit ==
  /\ hitLog = <<>>
  /\ applied = [u \in Hitters |-> 0]
  /\ hitsMade = [u \in Hitters |-> 0]

\* catchBird's setAllHitHistories(prev => ({...prev, [myId]: [...(prev[myId]
\* || []), newHit]})) by participant u, whose replica has applied every
\* value u itself published before.
ShareHit(u) ==
  /\ hitsMade[u] < MaxHits
  /\ \A i \in 1..Len(hitLog) : hitLog[i].from = u => i <= applied[u]
  /\ LET prev == LocalHistories(u)
         newHit == [by |-> u, timestamp |-> hitsMade[u] + 1]
     IN hitLog' = Append(hitLog,
                         [from |-> u,
                          value |-> [prev EXCEPT ![u] = Append(prev[u], newHit)]])
  /\ hitsMade' = [hitsMade EXCEPT ![u] = hitsMade[u] + 1]
  /\ UNCHANGED applied
  /\ UNCHANGED outsideHit

\* The next published value reaches participant u's replica.
ReceiveHistories(u) ==
  /\ applied[u] < Len(hitLog)
  /\ applied' = [applied EXCEPT ![u] = applied[u] + 1]
  /\ UNCHANGED <<hitLog, hitsMade>>
  /\ UNCHANGED outsideHit

HitNext ==
  \E u \in Hitters :
    \/ ShareHit(u)
    \/ ReceiveHistories(u)

\* ================================================ saving the round result
\* The host's client with a connected wallet from the start of a round to
\* the start of the next: the hits it scores, the end of the round, the
\* three effects that run on it (save at game over, reset on a new gameId,
\* totals at game over) and the settling of the saveGameData promises.

MaxSaveHits == 2     \* hits the host scores in a round
MaxSaveRounds == 2   \* rounds
MaxSaveCalls == 3    \* saveGameData invocations counted in a round

\* The dependency arrays, as far as their values can change here.
SaveDepsNow == <<hostGameOver, myHitHistory, hostGameId, myTotalScore, hasSavedGameData>>
ScoreDepsNow == <<hostGameOver, myHitHistory>>

SaveEffectPending ==
  saveDeps # SaveDepsNow \/ resetDeps # hostGameId \/ scoreDeps # ScoreDepsNow

\* if (gameOver && isCurrentHost && myHitHistory.length > 0 && address &&
\*     !hasSavedGameData)
SaveCond == hostGameOver /\ myHitHistory > 0 /\ ~hasSavedGameData

SaveInit ==
  /\ hostGameOver = FALSE
  /\ hostGameId = 1
  /\ myHitHistory = 0
  /\ myTotalScore = 0
  /\ hasSavedGameData = FALSE
  /\ isGameOverHandled = FALSE
  /\ savesPending = 0
  /\ saveDeps = <<FALSE, 0, 1, 0, FALSE>>
  /\ resetDeps = 1
  /\ scoreDeps = <<FALSE, 0>>
  /\ saveCalls = 0

\* catchBird's setMyHitHistory(prev => [...prev, newHit]) in the round
HostCatch ==
  /\ ~SaveEffectPending
  /\ ~hostGameOver
  /\ myHitHistory < MaxSaveHits
  /\ myHitHistory' = myHitHistory + 1
  /\ UNCHANGED <<hostGameOver, hostGameId, myTotalScore, hasSavedGameData,
                 isGameOverHandled, savesPending, saveDeps, resetDeps, scoreDeps, saveCalls>>
  /\ UNCHANGED outsideSave

\* The round timer's setGameOver(true)
HostRoundOver ==
  /\ ~SaveEffectPending
  /\ ~hostGameOver
  /\ hostGameOver' = TRUE
  /\ UNCHANGED <<hostGameId, myHitHistory, myTotalScore, hasSavedGameData,
                 isGameOverHandled, savesPending, saveDeps, resetDeps, scoreDeps, saveCalls>>
  /\ UNCHANGED outsideSave

\* Variant of HostRender: the total-score effect has no else branch, so
\* isGameOverHandled.current stays true.
HostRenderNoRearm ==
  /\ SaveEffectPending
  /\ LET runSave == saveDeps # SaveDepsNow
         runReset == resetDeps # hostGameId
         runScore == scoreDeps # ScoreDepsNow
         saves == runSave /\ SaveCond
         adds == runScore /\ hostGameOver /\ ~isGameOverHandled
     IN /\ saveCalls' = IF saves THEN Min(saveCalls + 1, MaxSaveCalls) ELSE saveCalls
        /\ savesPending' = IF saves THEN Min(savesPending + 1, MaxSaveCalls)
                                    ELSE savesPending
        /\ myHitHistory' = IF runReset THEN 0 ELSE myHitHistory
        /\ hostGameOver' = IF runReset THEN FALSE ELSE hostGameOver
        /\ hasSavedGameData' = IF runReset THEN FALSE ELSE hasSavedGameData
        /\ myTotalScore' = IF adds THEN myTotalScore + myHitHistory ELSE myTotalScore
        /\ isGameOverHandled' =
             IF ~runScore THEN isGameOverHandled
             ELSE IF hostGameOver THEN TRUE ELSE isGameOverHandled
  /\ saveDeps' = SaveDepsNow
  /\ resetDeps' = hostGameId
  /\ scoreDeps' = ScoreDepsNow
  /\ UNCHANGED hostGameId
  /\ UNCHANGED outsideSave

\* One commit: the effects whose dependencies changed run in source order
\* on the values of this render; what they set shows in the next render.
HostRender ==
  /\ SaveEffectPending
  /\ LET runSave == saveDeps # SaveDepsNow
         runReset == resetDeps # hostGameId
         runScore == scoreDeps # ScoreDepsNow
         saves == runSave /\ SaveCond
         adds == runScore /\ hostGameOver /\ ~isGameOverHandled
     IN /\ saveCalls' = IF saves THEN Min(saveCalls + 1, MaxSaveCalls) ELSE saveCalls
        /\ savesPending' = IF saves THEN Min(savesPending + 1, MaxSaveCalls)
                                    ELSE savesPending
        /\ myHitHistory' = IF runReset THEN 0 ELSE myHitHistory
        /\ hostGameOver' = IF runReset THEN FALSE ELSE hostGameOver
        /\ hasSavedGameData' = IF runReset THEN FALSE ELSE hasSavedGameData
        /\ myTotalScore' = IF adds THEN myTotalScore + myHitHistory ELSE myTotalScore
        /\ isGameOverHandled' =
             IF ~runScore THEN isGameOverHandled
             ELSE IF hostGameOver THEN TRUE ELSE FALSE
  /\ saveDeps' = SaveDepsNow
  /\ resetDeps' = hostGameId
  /\ scoreDeps' = ScoreDepsNow
  /\ UNCHANGED hostGameId
  /\ UNCHANGED outsideSave

\* A saveGameData promise settles: .then sets hasSavedGameData, .catch logs.
SaveSettles ==
  /\ ~SaveEffectPending
  /\ savesPending > 0
  /\ savesPending' = savesPending - 1
  /\ \E fulfilled \in BOOLEAN :
       hasSavedGameData' = IF fulfilled THEN TRUE ELSE hasSavedGameData
  /\ UNCHANGED <<hostGameOver, hostGameId, myHitHistory, myTotalScore,
                 isGameOverHandled, saveDeps, resetDeps, scoreDeps, saveCalls>>
  /\ UNCHANGED outsideSave

\* setupNextGame by the host on the game-over screen
HostNextGame ==
  /\ ~SaveEffectPending
  /\ hostGameOver
  /\ hostGameId < MaxSaveRounds
  /\ hostGameId' = hostGameId + 1
  /\ hostGameOver' = FALSE
  /\ saveCalls' = 0
  /\ UNCHANGED <<myHitHistory, myTotalScore, hasSavedGameData, isGameOverHandled,
                 savesPending, saveDeps, resetDeps, scoreDeps>>
  /\ UNCHANGED outsideSave

SaveNext ==
  \/ HostCatch
  \/ HostRoundOver
  \/ HostRender
  \/ SaveSettles
  \/ HostNextGame

\* ===================================================== catching entities
\* catchBird and the handlers that call it, in multiplayer (entities in a
\* ref, mutated in place) and in single-player (entities in React state,
\* read by the handlers as of the last render).  An input is given by the
\* entities it is within the hit radius of and, in single-player, by the
\* entity element it lands on.

MaxEntities == 2     \* entities created
MaxCatches == 2      \* hit records kept

\* birdTypes: name and points
BirdPoints == [Bee |-> 1, Butterfly |-> 2, BlueMouch |-> 5, Mouch |-> 10]
BirdNames == DOMAIN BirdPoints

\* The velocities entities are created with here.
SpawnVelocities == {<<1, 0>>, <<-1, 1>>}

CatchInit ==
  /\ catchMode = "multi"
  /\ entities = <<>>
  /\ renderedBirds = <<>>
  /\ catchHistory = <<>>
  /\ address = FALSE
  /\ pendingRecords = 0
  /\ lastRecord = "none"

\* The state catchBird works on.
CatchState == [birds |-> entities, history |-> catchHistory]

\* The hit record catchBird builds (the entity is added for attribution).
NewHit(bird, e) == [birdType |-> bird.bird, points |-> BirdPoints[bird.bird], entity |-> e]

\* status: 'hit', velocityX: 0, velocityY: 2
AsHit(bird) == [bird EXCEPT !.status = "hit", !.velocityX = 0, !.velocityY = HitVelocityY]

\* catchBird (multiplayer) that does not look at the status.
catchBirdMultiAlways(st, e) ==
  IF e \in 1..Len(st.birds) /\ st.birds[e].active
    THEN [birds |-> [st.birds EXCEPT ![e] = AsHit(st.birds[e])],
          history |-> Append(st.history, NewHit(st.birds[e], e))]
    ELSE st

\* catchBird (multiplayer): birdsRef.current.find, status check, append to
\* myHitHistory, mutation of the entity in place.
catchBirdMulti(st, e) ==
  IF e \in 1..Len(st.birds) /\ st.birds[e].active /\ st.birds[e].status = "flying"
    THEN [birds |-> [st.birds EXCEPT ![e] = AsHit(st.birds[e])],
          history |-> Append(st.history, NewHit(st.birds[e], e))]
    ELSE st

\* catchBird (single-player): birds.find and the status check read the
\* render's birds; setHitHistory appends; setBirds maps the current birds.
catchBirdSingle(st, snapshot, e) ==
  IF e \in 1..Len(snapshot) /\ snapshot[e].active /\ snapshot[e].status = "flying"
    THEN [birds |-> [i \in 1..Len(st.birds) |->
                       IF i = e /\ st.birds[i].active THEN AsHit(st.birds[i])
                       ELSE st.birds[i]],
          history |-> Append(st.history, NewHit(snapshot[e], e))]
    ELSE st

\* The calls of catchBird one input makes, in order.
RECURSIVE CatchEach(_, _, _, _)
CatchEach(mode, st, snapshot, calls) ==
  IF calls = <<>> THEN st
  ELSE CatchEach(mode,
                 IF mode = "multi" THEN catchBirdMulti(st, Head(calls))
                 ELSE catchBirdSingle(st, snapshot, Head(calls)),
                 snapshot, Tail(calls))

\* The entities of a list that are active and flying and belong to near,
\* in array order.
FlyingIn(list, near) ==
  SelectSeq([i \in 1..Len(list) |-> i],
            LAMBDA e : e \in near /\ list[e].active /\ list[e].status = "flying")

\* Every catchBird call that appended a record goes on, when an address is
\* set, to await hitService.recordHitImmediate.
SetCatch(st) ==
  /\ Len(st.history) <= MaxCatches
  /\ entities' = st.birds
  /\ catchHistory' = st.history
  /\ pendingRecords' = IF address
                         THEN pendingRecords + (Len(st.history) - Len(catchHistory))
                         ELSE pendingRecords
  /\ UNCHANGED <<address, lastRecord>>

\* The component is mounted: multiplayer or single-player.
ChooseMode ==
  /\ entities = <<>> /\ catchMode = "multi"
  /\ catchMode' = "single"
  /\ UNCHANGED <<entities, renderedBirds, catchHistory, recordVars>>
  /\ UNCHANGED outsideCatch

\* createBird
CatchSpawn ==
  /\ Len(entities) < MaxEntities
  /\ \E name \in BirdNames, v \in SpawnVelocities :
       entities' = Append(entities,
                          [bird |-> name, status |-> "flying",
                           velocityX |-> v[1], velocityY |-> v[2], active |-> TRUE])
  /\ UNCHANGED <<catchMode, renderedBirds, catchHistory, recordVars>>
  /\ UNCHANGED outsideCatch

\* The entity leaves the game area or has fallen out of it.
CatchRemove ==
  /\ \E e \in 1..Len(entities) :
       /\ entities[e].active
       /\ entities' = [entities EXCEPT ![e].active = FALSE]
  /\ UNCHANGED <<catchMode, renderedBirds, catchHistory, recordVars>>
  /\ UNCHANGED outsideCatch

\* Single-player: the component renders; the handlers now read these birds.
CatchRender ==
  /\ catchMode = "single"
  /\ renderedBirds # entities
  /\ renderedBirds' = entities
  /\ UNCHANGED <<catchMode, entities, catchHistory, recordVars>>
  /\ UNCHANGED outsideCatch

\* Multiplayer handleGameAreaClick / onPinch within the radius of near.
InputMulti ==
  /\ catchMode = "multi"
  /\ \E near \in SUBSET (1..Len(entities)) :
       /\ near # {}
       /\ SetCatch(CatchEach("multi", CatchState, entities, FlyingIn(entities, near)))
  /\ UNCHANGED <<catchMode, renderedBirds>>
  /\ UNCHANGED outsideCatch

\* Single-player click landing on the element of target (0: on none) within
\* the radius of near: the element's onClick, then handleGameAreaClick.
ClickSingle ==
  /\ catchMode = "single"
  /\ \E target \in 0..Len(renderedBirds), near \in SUBSET (1..Len(renderedBirds)) :
       /\ target # 0 \/ near # {}
       /\ target # 0 => renderedBirds[target].active
       /\ LET onClick == IF target # 0 /\ renderedBirds[target].status = "flying"
                           THEN <<target>> ELSE <<>>
          IN SetCatch(CatchEach("single", CatchState, renderedBirds,
                                onClick \o FlyingIn(renderedBirds, near)))
  /\ UNCHANGED <<catchMode, renderedBirds>>
  /\ UNCHANGED outsideCatch

\* Single-player onPinch within the radius of near.
PinchSingle ==
  /\ catchMode = "single"
  /\ \E near \in SUBSET (1..Len(renderedBirds)) :
       /\ near # {}
       /\ SetCatch(CatchEach("single", CatchState, renderedBirds,
                             FlyingIn(renderedBirds, near)))
  /\ UNCHANGED <<catchMode, renderedBirds>>
  /\ UNCHANGED outsideCatch

\* useAccount: the wallet is connected or disconnected.
WalletChanges ==
  /\ address' = ~address
  /\ UNCHANGED <<catchMode, entities, renderedBirds, catchHistory, pendingRecords,
                 lastRecord>>
  /\ UNCHANGED outsideCatch

\* The outcomes of one awaited recordHitImmediate: result.success, a result
\* with success false, or a throw caught by catchBird.
RecordOutcomes == {"success", "failed", "thrown"}

\* A variant of RecordSettles that takes the local hit back when the call
\* does not succeed.
RecordSettlesRollback ==
  /\ pendingRecords > 0
  /\ \E outcome \in RecordOutcomes :
       /\ lastRecord' = outcome
       /\ catchHistory' = IF outcome = "success" \/ catchHistory = <<>>
                            THEN catchHistory
                            ELSE SubSeq(catchHistory, 1, Len(catchHistory) - 1)
  /\ pendingRecords' = pendingRecords - 1
  /\ UNCHANGED <<catchMode, entities, renderedBirds, address>>
  /\ UNCHANGED outsideCatch

\* The await in catchBird returns or throws: each branch only shows a toast.
RecordSettles ==
  /\ pendingRecords > 0
  /\ \E outcome \in RecordOutcomes :
       /\ lastRecord' = outcome
       /\ catchHistory' = catchHistory
  /\ pendingRecords' = pendingRecords - 1
  /\ UNCHANGED <<catchMode, entities, renderedBirds, address>>
  /\ UNCHANGED outsideCatch

CatchNext ==
  \/ ChooseMode
  \/ WalletChanges
  \/ RecordSettles
  \/ CatchSpawn
  \/ CatchRemove
  \/ CatchRender
  \/ InputMulti
  \/ ClickSingle
  \/ PinchSingle

\* ======================================================== single-player
\* The single-player component (GameScreen) keeps countdown, gameStarted,
\* seconds and gameOver in useState; here they are held in the variables of
\* the same names, gameOver at Creator, with catchMode = "single".

\* The values no single-player step changes.
soloFixed == <<gameId, sessionLocked, allowedUsers, sessionEnded, waitingForPlayers,
               waitingTimer, hostUserId, users, isHost, isBeingKicked, depsCount,
               depsGame, depsCountdown, startTimer, flockTimers, birds, lockRoster,
               resumedAt, simVars, drawVars, hitVars, saveVars, entities,
               renderedBirds, catchHistory, recordVars, clockVars, resultVars,
               extraVars>>

\* GameScreen mounts instead of GameScreenMultiplayer: useState(3) for the
\* countdown, 60 seconds, not started, not over.
SoloMount ==
  /\ catchMode = "multi" /\ Init /\ entities = <<>>
  /\ catchMode' = "single"
  /\ countdown' = CountdownStart
  /\ UNCHANGED <<gameStarted, seconds, gameOver, soloFixed>>

\* Variant of SoloCountdownTick: the interval never starts the round.
SoloCountdownTickNoStart ==
  /\ catchMode = "single"
  /\ countdown' = IF countdown <= 1 THEN 0 ELSE countdown - 1
  /\ UNCHANGED <<catchMode, gameStarted, seconds, gameOver, soloFixed>>

\* The countdown effect's setInterval callback; the effect has no guard, so
\* the interval runs at every countdown value.
SoloCountdownTick ==
  /\ catchMode = "single"
  /\ IF countdown <= 1
       THEN gameStarted' = TRUE /\ countdown' = 0
       ELSE countdown' = countdown - 1 /\ UNCHANGED gameStarted
  /\ UNCHANGED <<catchMode, seconds, gameOver, soloFixed>>

\* The round timer's setInterval callback, armed while gameStarted && !gameOver.
SoloRoundTick ==
  /\ catchMode = "single"
  /\ gameStarted /\ ~gameOver[Creator]
  /\ IF seconds <= 1
       THEN /\ gameOver' = [gameOver EXCEPT ![Creator] = TRUE]
            /\ seconds' = 0
       ELSE /\ seconds' = seconds - 1
            /\ UNCHANGED gameOver
  /\ UNCHANGED <<catchMode, gameStarted, countdown, soloFixed>>

\* playAgain / resetGame, offered on the game-over screen.
SoloPlayAgain ==
  /\ catchMode = "single"
  /\ gameOver[Creator]
  /\ seconds' = RoundSeconds
  /\ gameOver' = [gameOver EXCEPT ![Creator] = FALSE]
  /\ gameStarted' = FALSE
  /\ countdown' = CountdownStart
  /\ UNCHANGED <<catchMode, soloFixed>>

\* ================================================= the round's wall clock
\* Every component whose round is running holds one setInterval of 1000 ms
\* on the shared seconds, so in one second of wall-clock time each of them
\* fires once.  ticked and secondStart divide the round into these seconds.

ClockInit ==
  /\ ticked = {}
  /\ secondStart = RoundSeconds

\* The interval of u fires for the first time in this second.  Its updater
\* reads the store as u's replica has it: with the writes of this second
\* (seconds) or still without them (secondStart).
ClockRoundTick(u) ==
  /\ Settled(u)
  /\ gameStarted /\ ~gameOver[u]
  /\ NoStartTimer
  /\ u \notin ticked
  /\ \E prev \in {seconds, secondStart} :
       IF prev <= 1
         THEN /\ gameOver' = [gameOver EXCEPT ![u] = TRUE]
              /\ seconds' = 0
         ELSE /\ seconds' = prev - 1
              /\ UNCHANGED gameOver
  /\ ticked' = ticked \cup {u}
  /\ UNCHANGED <<gameStarted, countdown, gameId, sessionLocked, allowedUsers, sessionEnded,
                 waitingForPlayers, waitingTimer, hostUserId, users, isHost, isBeingKicked,
                 depsCount, depsGame, depsCountdown, startTimer, flockTimers, birds,
                 lockRoster, secondStart>>
  /\ NoResume
  /\ UNCHANGED <<simVars, drawVars, hitVars, saveVars, catchVars, resultVars, extraVars>>

\* One second of wall-clock time is over: every running interval has fired.
SecondElapses ==
  /\ gameStarted /\ AllSettled /\ NoStartTimer
  /\ ticked # {}
  /\ \A u \in users : ~gameOver[u] => u \in ticked
  /\ ticked' = {}
  /\ secondStart' = seconds
  /\ UNCHANGED <<session, simVars, drawVars, hitVars, saveVars, catchVars, resultVars,
                 extraVars>>

ClockNext ==
  \E u \in Users :
    \/ Join(u) /\ UNCHANGED outsideSession
    \/ Render(u) /\ UNCHANGED outsideSession
    \/ HandleStartGame(u) /\ UNCHANGED outsideSession
    \/ CountdownTick(u) /\ UNCHANGED outsideSession
    \/ StartTimerFire(u) /\ UNCHANGED outsideSession
    \/ ClockRoundTick(u)
    \/ u = Creator /\ SecondElapses

\* ==================================================== the rounds' results
\* setupNextGame with what it stores: the participants' totals, which each
\* component's total-score effect raises when its round is over.

MaxRounds == 3       \* gameId takes the values 1..MaxRounds
MaxRoundScore == 1   \* a participant's score in one round is 0..MaxRoundScore
MaxPlayers == 2      \* the participants 1..MaxPlayers enter the room

ResultInit ==
  /\ gameResults = <<>>
  /\ allTotalScores = [u \in Users |-> 0]
  /\ handled = {}

\* useEffect "Update total score and hits when a game ends", with the
\* round's score myCurrentScore.
TotalScoreEffect(u) ==
  /\ u \in users
  /\ \/ /\ gameOver[u] /\ u \notin handled
        /\ \E myCurrentScore \in 0..MaxRoundScore :
             allTotalScores' = [allTotalScores EXCEPT ![u] = @ + myCurrentScore]
        /\ handled' = handled \cup {u}
     \/ /\ ~gameOver[u] /\ u \in handled
        /\ handled' = handled \ {u}
        /\ UNCHANGED allTotalScores
  /\ UNCHANGED <<gameResults, session, simVars, drawVars, hitVars, saveVars, catchVars,
                 clockVars, extraVars>>

\* { ...prevResults, [gameId]: allTotalScores }
WithResult(results, id, totals) ==
  [k \in DOMAIN results \cup {id} |-> IF k = id THEN totals ELSE results[k]]

\* Variant of setupNextGame without `if (isCurrentHost)`.
setupNextGameAnyone(u) ==
  /\ gameResults' = WithResult(gameResults, gameId, allTotalScores)
  /\ gameId' = gameId + 1
  /\ gameOver' = [gameOver EXCEPT ![u] = FALSE]
  /\ gameStarted' = FALSE
  /\ countdown' = 0
  /\ seconds' = RoundSeconds
  /\ UNCHANGED <<sessionLocked, allowedUsers, sessionEnded, waitingForPlayers,
                 waitingTimer, hostUserId, users, isHost, isBeingKicked, depsCount,
                 depsGame, depsCountdown, startTimer, flockTimers, birds, lockRoster,
                 resumedAt, allTotalScores, handled>>

\* setupNextGame, called in the component of u.
setupNextGame(u) ==
  IF isCurrentHost(u)
    THEN /\ gameResults' = WithResult(gameResults, gameId, allTotalScores)
         /\ gameId' = gameId + 1
         /\ gameOver' = [gameOver EXCEPT ![u] = FALSE]
         /\ gameStarted' = FALSE
         /\ countdown' = 0
         /\ seconds' = RoundSeconds
         /\ UNCHANGED <<sessionLocked, allowedUsers, sessionEnded, waitingForPlayers,
                        waitingTimer, hostUserId, users, isHost, isBeingKicked, depsCount,
                        depsGame, depsCountdown, startTimer, flockTimers, birds,
                        lockRoster, resumedAt, allTotalScores, handled>>
    ELSE UNCHANGED <<session, resultVars>>

\* Some participant on the game-over screen of a room of two or more calls
\* setupNextGame: the host by "Start Another Game", another participant by
\* any other way to the function.
CallSetupNextGame(u) ==
  /\ Settled(u)
  /\ Screen(u) = "over" /\ userCount >= MinPlayers
  /\ gameId < MaxRounds
  /\ setupNextGame(u)
  /\ UNCHANGED <<simVars, drawVars, hitVars, saveVars, catchVars, clockVars, extraVars>>

ResultNext ==
  \E u \in Users :
    \/ u <= MaxPlayers /\ Join(u) /\ UNCHANGED outsideSession
    \/ Render(u) /\ UNCHANGED outsideSession
    \/ HandleStartGame(u) /\ UNCHANGED outsideSession
    \/ CountdownTick(u) /\ UNCHANGED outsideSession
    \/ StartTimerFire(u) /\ UNCHANGED outsideSession
    \/ RoundTick(u) /\ UNCHANGED outsideSession
    \/ TotalScoreEffect(u)
    \/ CallSetupNextGame(u)

\* ================================================ the replicas of the host
\* hostUserId as the participants hold it: every setHostUserId is published
\* and reaches each participant's replica later, in the session's order; a
\* participant reads and compares the value its own replica holds.

MaxHostWrites == 3   \* setHostUserId calls

ElectInit ==
  /\ hostWrites = <<>>
  /\ hostSeen = [u \in Users |-> 0]

\* hostUserId as u's replica holds it ('' before the first write arrives).
HostView(u) == IF hostSeen[u] = 0 THEN NoUser ELSE hostWrites[hostSeen[u]]

\* The frame of the steps on the replicas: of the session only the roster
\* changes.
electFixed == <<shared, local, lockRoster, resumedAt, simVars, drawVars, hitVars,
                saveVars, catchVars, clockVars, resultVars, spawnVars, idVars>>

\* A participant enters the room; its replica starts from the latest value.
ElectJoin(u) ==
  /\ u \notin users
  /\ users' = users \cup {u}
  /\ hostSeen' = [hostSeen EXCEPT ![u] = Len(hostWrites)]
  /\ UNCHANGED <<hostWrites, electFixed>>

\* A participant leaves the room or disconnects.
ElectLeave(u) ==
  /\ u \in users
  /\ users' = users \ {u}
  /\ UNCHANGED <<hostWrites, hostSeen, electFixed>>

\* useEffect "Set initial host"
ElectInitialHost(u) ==
  /\ u \in users /\ u \in isHost
  /\ HostView(u) = NoUser
  /\ Len(hostWrites) < MaxHostWrites
  /\ hostWrites' = Append(hostWrites, u)
  /\ UNCHANGED <<users, hostSeen, electFixed>>

\* useEffect "Host transfer logic" in the component of u
ElectTransfer(u) ==
  /\ u \in users
  /\ HostView(u) # NoUser /\ HostView(u) \notin users
  /\ Len(hostWrites) < MaxHostWrites
  /\ \E randomUser \in users : hostWrites' = Append(hostWrites, randomUser)
  /\ UNCHANGED <<users, hostSeen, electFixed>>

\* The next published value reaches u's replica.
ElectReceive(u) ==
  /\ u \in users
  /\ hostSeen[u] < Len(hostWrites)
  /\ hostSeen' = [hostSeen EXCEPT ![u] = hostSeen[u] + 1]
  /\ UNCHANGED <<users, hostWrites, electFixed>>

ElectNext ==
  \E u \in Users :
    \/ ElectJoin(u)
    \/ ElectLeave(u)
    \/ ElectInitialHost(u)
    \/ ElectTransfer(u)
    \/ ElectReceive(u)

\* ======================================================= entering the arena
\* createBird's choice of the entry point, the target and the velocity, and
\* createFlock, for containers of ArenaStep * (1..MaxArena) px a side.
\* Velocities are counted in 1 / SpeedUnit like the speeds.

MaxArena == 2        \* clientWidth, clientHeight are ArenaStep * (1..MaxArena)
MaxFlockSize == 1    \* flockSize (3..5 in the code)
ArenaStep == 5       \* Math.min(width, height) * 0.2 is a whole number

ArenaSizes == {ArenaStep * k : k \in 1..MaxArena}

\* No entity created yet.
NoSpawn == [side |-> -1]

SpawnInit ==
  /\ spawned = NoSpawn
  /\ flockPending = [side |-> 0, left |-> 0]
  /\ waveDivZero = FALSE

outsideSpawn ==
  <<session, simVars, drawVars, hitVars, saveVars, catchVars, clockVars, resultVars,
    electVars, idVars>>

\* Math.sqrt, rounded down
Sqrt(n) == CHOOSE r \in 0..n : r * r <= n /\ (r + 1) * (r + 1) > n

Abs(n) == IF n < 0 THEN -n ELSE n

\* (d / distance) * speed
VelocityOf(d, distance, speed) ==
  IF d < 0 THEN -((Abs(d) * speed) \div distance) ELSE (d * speed) \div distance

\* Math.min(getScaledSize(100), Math.min(width, height) * 0.2)
spawnDistanceOf(scaled, w, h) == Min(scaled, Min(w, h) \div ArenaStep)

\* The speeds createBird draws: the slowest and the fastest of a round.
SpawnSpeeds ==
  {speedOf(baseSpeed(FullRound), 0), speedOf(baseSpeed(0), RandomSteps - 1)}

\* The kinds getRandomBird draws here: a Bee and a Butterfly.
SpawnNames == {getRandomBird(0), getRandomBird((3 * RandomSteps) \div 4)}

\* Math.random() * extent for the least and the greatest Math.random() in
\* steps of 1 / ArenaStep.
Along(extent) == {(k * extent) \div ArenaStep : k \in {0, ArenaStep - 1}}

\* Variant of EntryAndTarget: the target of an entity from the left or right
\* edge is the bottom corner of the edge it enters from.
EntryAndTargetSameEdge(side, w, h, sd, along, targetAlong) ==
  CASE side = 0 -> [x |-> -sd, y |-> Clamp(sd, h - sd, along),
                    targetX |-> -sd, targetY |-> h + sd]
    [] side = 1 -> [x |-> w + sd, y |-> Clamp(sd, h - sd, along),
                    targetX |-> w + sd, targetY |-> h + sd]
    [] side = 2 -> [x |-> Clamp(sd, w - sd, along), y |-> -sd,
                    targetX |-> Clamp(sd, w - sd, targetAlong), targetY |-> h + sd]
    [] OTHER -> [x |-> Clamp(sd, w - sd, along), y |-> h + sd,
                 targetX |-> Clamp(sd, w - sd, targetAlong), targetY |-> -sd]

\* switch (side): the entry point and the target; along is flockOptions.y or
\* Math.random() * height (* width), targetAlong the target's draw.
EntryAndTarget(side, w, h, sd, along, targetAlong) ==
  CASE side = 0 -> [x |-> -sd, y |-> Clamp(sd, h - sd, along),
                    targetX |-> w + sd, targetY |-> Clamp(sd, h - sd, targetAlong)]
    [] side = 1 -> [x |-> w + sd, y |-> Clamp(sd, h - sd, along),
                    targetX |-> -sd, targetY |-> Clamp(sd, h - sd, targetAlong)]
    [] side = 2 -> [x |-> Clamp(sd, w - sd, along), y |-> -sd,
                    targetX |-> Clamp(sd, w - sd, targetAlong), targetY |-> h + sd]
    [] OTHER -> [x |-> Clamp(sd, w - sd, along), y |-> h + sd,
                 targetX |-> Clamp(sd, w - sd, targetAlong), targetY |-> -sd]

\* createBird(flockOptions) in a container of w by h: the entity it makes.
createBirdFrom(side, w, h, scaled, along, targetAlong, speed, name, inFlock) ==
  LET sd == spawnDistanceOf(scaled, w, h)
      p == EntryAndTarget(side, w, h, sd, along, targetAlong)
      dx == p.targetX - p.x
      dy == p.targetY - p.y
      distance == Sqrt(dx * dx + dy * dy)
  IN [side |-> side, bird |-> name, x |-> p.x, targetX |-> p.targetX,
      velocityX |-> VelocityOf(dx, distance, speed),
      velocityY |-> VelocityOf(dy, distance, speed),
      inFlock |-> inFlock]

\* createBird() from spawnBird's timer: the side is drawn.
CreateBird ==
  /\ \E side \in 0..3, w \in ArenaSizes, h \in ArenaSizes, scaled \in 1..MaxArena,
        speed \in SpawnSpeeds, name \in SpawnNames :
       \E along \in Along(IF side \in {0, 1} THEN h ELSE w),
          targetAlong \in Along(IF side \in {0, 1} THEN h ELSE w) :
         /\ spawned' = createBirdFrom(side, w, h, scaled, along, targetAlong, speed,
                                      name, FALSE)
  /\ waveDivZero' = FALSE
  /\ UNCHANGED flockPending
  /\ UNCHANGED outsideSpawn

\* createFlock: side = Math.floor(Math.random() * 2), one timeout per member.
CreateFlock ==
  /\ flockPending.left = 0
  /\ \E side \in 0..1, flockSize \in 1..MaxFlockSize :
       flockPending' = [side |-> side, left |-> flockSize]
  /\ UNCHANGED <<spawned, waveDivZero>>
  /\ UNCHANGED outsideSpawn

\* A timeout of createFlock fires: createBird({ side, y: yOffset }), yOffset
\* anywhere around the container.
FlockMember ==
  /\ flockPending.left > 0
  /\ \E w \in ArenaSizes, h \in ArenaSizes, scaled \in 1..MaxArena,
        speed \in SpawnSpeeds, name \in SpawnNames :
       \E yOffset \in {-1, h + 1}, targetAlong \in Along(h) :
         spawned' = createBirdFrom(flockPending.side, w, h, scaled, yOffset,
                                   targetAlong, speed, name, TRUE)
  /\ flockPending' = [flockPending EXCEPT !.left = @ - 1]
  /\ waveDivZero' = FALSE
  /\ UNCHANGED outsideSpawn

\* gameLoop moves the flying entity: a Butterfly's newY divides bird.x by
\* bird.velocityX.
WaveStep ==
  /\ spawned # NoSpawn
  /\ spawned.bird = "Butterfly"
  /\ waveDivZero' = (spawned.velocityX = 0)
  /\ UNCHANGED <<spawned, flockPending>>
  /\ UNCHANGED outsideSpawn

SpawnNext ==
  \/ CreateBird
  \/ CreateFlock
  \/ FlockMember
  \/ WaveStep


\* ============================================================ entity ids
\* instance.id = Math.random().toString(36).substring(7), and catchBird's
\* birdsRef.current.find(b => b.id === birdId). Math.random().toString(36)
\* is "0." and the digits of the fraction; a digit string stands for it here.

MaxIdBirds == 3      \* entities in birdsRef
MaxIdDigits == 1     \* digits Math.random().toString(36) has beyond substring(7)
DroppedDigits == 5   \* substring(7) drops "0." and this many digits

IdDigits == {0, 1}

\* A fraction of DroppedDigits digits starting with digit d.
Lead(d) == [i \in 1..DroppedDigits |-> IF i = 1 THEN d ELSE 0]

\* The digit strings of the draws of Math.random() followed here.
RandomFractions ==
  {Lead(d) : d \in IdDigits} \cup
  {Lead(d) \o tail : d \in IdDigits,
                     tail \in UNION {[1..n -> IdDigits] : n \in 1..MaxIdDigits}}

\* toString(36).substring(7) of the draw with these digits.
idOf(fraction) ==
  IF Len(fraction) <= DroppedDigits THEN <<>>
  ELSE SubSeq(fraction, DroppedDigits + 1, Len(fraction))

\* No entity caught yet.
NoCatch == [tested |-> 0, found |-> 0]

IdInit ==
  /\ idBirds = <<>>
  /\ lastCatch = NoCatch

outsideId ==
  <<session, simVars, drawVars, hitVars, saveVars, catchVars, clockVars, resultVars,
    electVars, spawnVars>>

\* birdsRef.current.find(b => b.id === birdId): the first index, 0 for none.
findById(list, birdId) ==
  IF \E i \in 1..Len(list) : list[i].id = birdId
    THEN CHOOSE i \in 1..Len(list) :
           /\ list[i].id = birdId
           /\ \A j \in 1..(i - 1) : list[j].id # birdId
    ELSE 0

\* createBird: the entity gets the id of a new draw.
IdCreateBird ==
  /\ Len(idBirds) < MaxIdBirds
  /\ \E fraction \in RandomFractions :
       idBirds' = Append(idBirds, [id |-> idOf(fraction), status |-> "flying"])
  /\ UNCHANGED lastCatch
  /\ UNCHANGED outsideId

\* gameLoop's swap-removal of birds[i].
IdRemove ==
  /\ \E i \in 1..Len(idBirds) :
       LET popped == SubSeq(idBirds, 1, Len(idBirds) - 1)
       IN idBirds' = IF i - 1 < Len(popped)
                       THEN [popped EXCEPT ![i] = idBirds[Len(idBirds)]]
                       ELSE popped
  /\ lastCatch' = NoCatch
  /\ UNCHANGED outsideId

\* handleGameAreaClick / onPinch found birds[tested] within the radius and
\* calls catchBird(bird.id).
IdCatch ==
  /\ \E tested \in 1..Len(idBirds) :
       /\ idBirds[tested].status = "flying"
       /\ LET found == findById(idBirds, idBirds[tested].id)
          IN /\ lastCatch' = [tested |-> tested, found |-> found]
             /\ idBirds' = IF idBirds[found].status = "flying"
                             THEN [idBirds EXCEPT ![found].status = "hit"]
                             ELSE idBirds
  /\ UNCHANGED outsideId

IdNext ==
  \/ IdCreateBird
  \/ IdRemove
  \/ IdCatch


\* ------------------------------------------------------ specifications
\* Every specification starts from the state after construction; each
\* moves its own part of the state.
AllInit ==
  Init /\ SimInit /\ NoDraws /\ HitInit /\ SaveInit /\ CatchInit /\ ClockInit
    /\ ResultInit /\ ElectInit /\ SpawnInit /\ IdInit

\* The spawn draws start from any value of Math.random() and of seconds.
DrawSpecInit ==
  Init /\ SimInit /\ DrawInit /\ HitInit /\ SaveInit /\ CatchInit /\ ClockInit
    /\ ResultInit /\ ElectInit /\ SpawnInit /\ IdInit

\* ------------------------------------------------------------------ Next
Next ==
  \E u \in Users :
    \/ Join(u) /\ UNCHANGED outsideSession
    \/ Leave(u) /\ UNCHANGED outsideSession
    \/ Render(u) /\ UNCHANGED outsideSession
    \/ CountdownTick(u) /\ UNCHANGED outsideSession
    \/ StartTimerFire(u) /\ UNCHANGED outsideSession
    \/ RoundTick(u) /\ UNCHANGED outsideSession
    \/ WaitingTick(u) /\ UNCHANGED outsideSession
    \/ SpawnLoop(u) /\ UNCHANGED outsideSession
    \/ FlockMemberFire(u) /\ UNCHANGED outsideSession
    \/ GameLoopStep(u) /\ UNCHANGED outsideSession
    \/ HandleStartGame(u) /\ UNCHANGED outsideSession
    \/ HandleEndSession(u) /\ UNCHANGED outsideSession
    \/ SetupNextGame(u) /\ UNCHANGED outsideSession

Spec == AllInit /\ [][Next]_vars

SimSpec == AllInit /\ [][SimNext]_vars

DrawSpec == DrawSpecInit /\ [][DrawNext]_vars

HitSpec == AllInit /\ [][HitNext]_vars

SaveSpec == AllInit /\ [][SaveNext]_vars

CatchSpec == AllInit /\ [][CatchNext]_vars

\* The countdown is running: a decrement or a start timeout is pending.
Counting == ~gameStarted /\ (countdown > 0 \/ \E u \in Users : startTimer[u])

\* The round is ending: the clock shows 0 and the interval of some connected
\* participant has still to fire on it.
Ending == gameStarted /\ seconds = 0 /\ \E u \in users : ~gameOver[u]

\* A timer is due within the second.
TimersDue == Counting \/ Ending

\* The session and the single-player component with their timers firing:
\* an armed timeout or interval fires after its second, a component with
\* changed dependencies renders.  The participants wait while a timer is
\* due: they join, leave, end the session and set up the next round only
\* when no countdown runs and no round is ending.
LiveNext ==
  \E u \in Users :
    \/ catchMode = "multi" /\ ~TimersDue /\ Join(u) /\ UNCHANGED outsideSession
    \/ catchMode = "multi" /\ ~TimersDue /\ Leave(u) /\ UNCHANGED outsideSession
    \/ catchMode = "multi" /\ Render(u) /\ UNCHANGED outsideSession
    \/ catchMode = "multi" /\ CountdownTick(u) /\ UNCHANGED outsideSession
    \/ catchMode = "multi" /\ StartTimerFire(u) /\ UNCHANGED outsideSession
    \/ catchMode = "multi" /\ RoundTick(u) /\ UNCHANGED outsideSession
    \/ catchMode = "multi" /\ WaitingTick(u) /\ UNCHANGED outsideSession
    \/ catchMode = "multi" /\ SpawnLoop(u) /\ UNCHANGED outsideSession
    \/ catchMode = "multi" /\ FlockMemberFire(u) /\ UNCHANGED outsideSession
    \/ catchMode = "multi" /\ GameLoopStep(u) /\ UNCHANGED outsideSession
    \/ catchMode = "multi" /\ HandleStartGame(u) /\ UNCHANGED outsideSession
    \/ catchMode = "multi" /\ ~TimersDue /\ HandleEndSession(u) /\ UNCHANGED outsideSession
    \/ catchMode = "multi" /\ ~TimersDue /\ SetupNextGame(u) /\ UNCHANGED outsideSession
    \/ u = Creator /\ SoloMount
    \/ u = Creator /\ SoloCountdownTick
    \/ u = Creator /\ SoloRoundTick
    \/ u = Creator /\ SoloPlayAgain

LiveFairness ==
  /\ \A u \in Users : WF_vars(catchMode = "multi" /\ Render(u) /\ UNCHANGED outsideSession)
  /\ SF_vars(\E u \in Users :
               catchMode = "multi" /\ CountdownTick(u) /\ UNCHANGED outsideSession)
  /\ SF_vars(\E u \in Users :
               catchMode = "multi" /\ StartTimerFire(u) /\ UNCHANGED outsideSession)
  /\ \A u \in Users :
       SF_vars(catchMode = "multi" /\ RoundTick(u) /\ UNCHANGED outsideSession)
  /\ WF_vars(SoloCountdownTick)
  /\ WF_vars(SoloRoundTick)

LiveSpec == AllInit /\ [][LiveNext]_vars /\ LiveFairness

\* A frame with an entity in birdsRef changes the state, so
\* ENABLED <<GameLoopTick>>_vars is birdsRef # <<>>.
FrameMoves ==
  birdsRef # <<>> => SimLoop(SimState, 1, CellSizeOf(hitRadius), "none").st # SimState

\* gameLoop re-arms requestAnimationFrame at the end of every frame: weak
\* fairness of GameLoopTick, WF_vars(GameLoopTick) with its ENABLED written
\* out as FrameMoves allows.
GameLoopFairness == []<>(birdsRef = <<>>) \/ []<><<GameLoopTick>>_vars

SimLiveSpec == AllInit /\ [][SimNext]_vars /\ GameLoopFairness

ClockSpec == AllInit /\ [][ClockNext]_vars

SpawnSpec == AllInit /\ [][SpawnNext]_vars

IdSpec == AllInit /\ [][IdNext]_vars

ResultSpec == AllInit /\ [][ResultNext]_vars

ElectSpec == AllInit /\ [][ElectNext]_vars

\* ================================================================ claims

\* C1: in a started round that is not over for the participant running the
\* user-count effect, fewer than 2 connected participants make
\* waitingForPlayers true with waitingTimer = WaitingSeconds (30 in the code),
\* and waiting ends only with >= 2 participants, with waitingTimer set back to
\* WaitingSeconds instead of keeping the value it had counted down to.
C1_WaitingStartsAndResets ==
  [][\A u \in Users :
       (Render(u) /\ gameStarted /\ ~gameOver[u]) =>
          /\ (depsCount[u] # CountDeps(u) /\ userCount < MinPlayers) =>
                (waitingForPlayers' /\ waitingTimer' = WaitingSeconds)
          /\ (waitingForPlayers /\ ~waitingForPlayers') =>
                (userCount >= MinPlayers /\ waitingTimer' = WaitingSeconds)]_vars

\* C1 witness: the round resumed from a wait that had counted part of the way
\* down, and the timer is back at WaitingSeconds.
C1_Witness ==
  /\ resumedAt > 0 /\ resumedAt < WaitingSeconds
  /\ gameStarted /\ ~waitingForPlayers
  /\ waitingTimer = WaitingSeconds
  /\ userCount >= MinPlayers

C3_ClockPausedWhileWaiting ==
  [][(waitingForPlayers /\ gameStarted /\ \E u \in users : ~gameOver[u]) =>
        seconds' = seconds]_vars

\* C4: a participant outside allowedUsers that renders in the locked room is
\* put into the excluded state, and nobody in allowedUsers is ever put into it
\* by the lock check (only the end of the session excludes them).
C4_LockExcludesNewcomers ==
  /\ [](\A u \in users :
          (isBeingKicked[u] /\ ~sessionEnded) => (sessionLocked /\ u \notin allowedUsers))
  /\ [][\A u \in Users :
          (Render(u) /\ sessionLocked /\ u \notin allowedUsers) => isBeingKicked'[u]]_vars

\* C4 witness: the room is locked, a participant outside the allow-list is
\* excluded while one inside it is connected and not excluded.
C4_Witness ==
  /\ sessionLocked /\ ~sessionEnded
  /\ \E c \in users : c \notin allowedUsers /\ isBeingKicked[c]
  /\ \E a \in users : a \in allowedUsers /\ ~isBeingKicked[a] /\ depsCount[a] = CountDeps(a)

\* C5: once sessionEnded is true, no step sets it back to false.
C5_EndedIsOneWay == [][sessionEnded => sessionEnded']_vars

\* C5 witness: the session has ended and a participant who joined afterwards
\* has rendered (and is shown the ended screen).
C5_Witness == sessionEnded /\ \E u \in users : isBeingKicked[u]

C7_LockSurvivesStartAndNextRound ==
  [][(sessionLocked /\ \E u \in Users : HandleStartGame(u) \/ SetupNextGame(u)) =>
        (sessionLocked' /\ allowedUsers' = allowedUsers)]_vars

\* C7 witness: a later round was started in the locked room while the roster
\* differed from the allow-list.
C7_Witness ==
  /\ sessionLocked /\ gameId > 1 /\ countdown = CountdownStart
  /\ users # allowedUsers

C9_NoSimulationOutsideActive ==
  [][\A u \in Users :
       (u \in users /\ u \in users' /\ ~Active(u)) => birds'[u] = birds[u]]_vars

\* C10: once a participant's round has stopped (its phase is not Active), no
\* flock-member timeout scheduled before the stop fires and changes the
\* participant's entities or the shared state.
C10_StoppedTimersDoNotFire ==
  [][\A u \in Users :
       (FlockMemberFire(u) /\ ~Active(u)) => (birds' = birds /\ UNCHANGED shared)]_vars

\* ------------------------------------------------ claims on the simulation

\* C11: a record whose status is 'hit' has status 'flying' after a step only
\* if before the step it was in the pool and not in the active array, and the
\* step (a createBird) put it into the active array; a 'hit' record that
\* stays in the active array stays 'hit'.
C11_HitFliesOnlyWhenReacquired ==
  [][\A b \in DOMAIN birdRecs :
       (birdRecs[b].status = "hit" /\ birdRecs'[b].status = "flying") =>
          /\ b \in Range(birdPoolRef) /\ b \notin Range(birdsRef)
          /\ b \in Range(birdsRef') /\ b \notin Range(birdPoolRef')]_vars

\* C11 witness: a record that was released to the pool as 'hit' has been
\* re-acquired and is flying in the active array.
C11_Witness ==
  \E b \in DOMAIN birdRecs :
    /\ b \in reacquired
    /\ birdRecs[b].status = "flying"
    /\ b \in Range(birdsRef)

\* C12: for every flying record of the active array that is in the index,
\* queryNearbyBirds centred on the record's position includes the record,
\* for every radius in 0..MaxQueryRadius.
C12_QueryIncludesCentre ==
  \A b \in Range(birdsRef) :
    (birdRecs[b].status = "flying" /\ birdRecs[b].cellKey # NoKey) =>
       \A radius \in 0..MaxQueryRadius :
          b \in Range(queryNearbyBirds(SimState, birdRecs[b].x, birdRecs[b].y, radius))

\* C13: in every reachable state, for every active record and every cell
\* size, a second spatialUpdateIfMoved right after a first (same record,
\* same cell size, position untouched) leaves the bucket map and the
\* record's cellKey as the first call left them, and after the first call
\* the record is in exactly one bucket and no bucket holds a record twice.
C13_UpdateIfMovedIdempotent ==
  \A b \in Range(birdsRef) :
    \A cellSize \in CellSizes :
      LET once == spatialUpdateIfMoved(SimState, b, cellSize)
          twice == spatialUpdateIfMoved(once, b, cellSize)
      IN /\ twice.hash = once.hash
         /\ twice.recs[b].cellKey = once.recs[b].cellKey
         /\ Cardinality(BucketsOf(once.hash, b)) = 1
         /\ NoDuplicates(once.hash)

\* C13 witness: two records are active and indexed, and for one of them a
\* first call (under a cell size other than the one it was keyed with) moves
\* it to another bucket while the second call finds nothing to do.
C13_Witness ==
  /\ Len(birdsRef) = 2
  /\ \E b \in Range(birdsRef) :
       /\ birdRecs[b].cellKey # NoKey
       /\ \E cellSize \in CellSizes :
            LET once == spatialUpdateIfMoved(SimState, b, cellSize)
            IN /\ once.hash # spatialHashRef
               /\ once.recs[b].cellKey # birdRecs[b].cellKey
               /\ spatialUpdateIfMoved(once, b, cellSize) = once

\* C14: every record in the pool is in no bucket and has cellKey cleared,
\* and every record in the active array (a re-acquired one included) has a
\* cellKey that names a bucket holding it and is in that bucket only.
C14_PooledRecordsLeaveTheIndex ==
  /\ \A b \in Range(birdPoolRef) :
       birdRecs[b].cellKey = NoKey /\ BucketsOf(spatialHashRef, b) = {}
  /\ \A b \in Range(birdsRef) :
       /\ birdRecs[b].cellKey # NoKey
       /\ BucketsOf(spatialHashRef, b) = {birdRecs[b].cellKey}

\* C14 witness: a record that was acquired, released and acquired again is
\* active and indexed while another record waits in the pool.
C14_Witness ==
  /\ birdPoolRef # <<>>
  /\ \E b \in reacquired :
       /\ b \in Range(birdsRef)
       /\ BucketsOf(spatialHashRef, b) = {birdRecs[b].cellKey}

\* C15: for every point of the game area and every flying record of the
\* active array, a click or pinch at the point hits the record iff the
\* squared distance between the two is strictly less than the square of
\* the hit radius, in multiplayer and in single-player.
C15_HitIffStrictlyInside ==
  \A x \in 0..width, y \in 0..height :
    \A b \in Range(birdsRef) :
      birdRecs[b].status = "flying" =>
        /\ b \in HitBy(SimState, x, y)
              <=> WithinRadius(x, y, birdRecs[b], hitRadius)
        /\ b \in HitBySingle(birdRecs, birdsRef, x, y)
              <=> WithinRadius(x, y, birdRecs[b], hitRadiusSingle)

\* C18: every record is in exactly one of the active array and the pool:
\* the two have no record in common, neither holds a record twice, and
\* together they hold every record ever created.
C18_ActiveOrPooled ==
  /\ Range(birdsRef) \cap Range(birdPoolRef) = {}
  /\ Range(birdsRef) \cup Range(birdPoolRef) = DOMAIN birdRecs
  /\ Cardinality(Range(birdsRef)) = Len(birdsRef)
  /\ Cardinality(Range(birdPoolRef)) = Len(birdPoolRef)

\* C18 witness: the last tick removed a record from the middle of the
\* active array (the last element took its place), the record that moved
\* is active, the removed one is pooled, and a record had been hit,
\* released and acquired again before.
C18_Witness ==
  /\ lastRemoval = "middle"
  /\ Len(birdsRef) = 1 /\ Len(birdPoolRef) = 1
  /\ reacquired # {}

\* The cell key of a record's position under a cell size.
KeyOf(rec, cellSize) == getCellKeyFromXY(rec.x, rec.y, cellSize)

\* C19 as stated: after every spawn and after every tick each flying record
\* of the active array has cellKey equal to the key of its position under
\* the cell size of the current hit radius, and every active record is in
\* at most one bucket.
C19_KeysCurrentAfterSpawnAndTick ==
  [][(SpawnBird \/ GameLoopTick) =>
       \A b \in Range(birdsRef') :
         /\ birdRecs'[b].status = "flying" =>
               birdRecs'[b].cellKey = KeyOf(birdRecs'[b], CellSizeOf(hitRadius))
         /\ Cardinality(BucketsOf(spatialHashRef', b)) <= 1]_vars

\* C19 amended: after every tick every record of the active array has
\* cellKey equal to the key of its position under the tick's cell size;
\* after a spawn the spawned record has the key of its position under the
\* spawn's cell size while the other records keep the keys they had (which
\* are those of an older cell size if the container was resized since the
\* last tick); and every active record is in at most one bucket, always.
C19_KeysCurrentAfterTick ==
  /\ [](\A b \in Range(birdsRef) : Cardinality(BucketsOf(spatialHashRef, b)) <= 1)
  /\ [][GameLoopTick =>
          \A b \in Range(birdsRef') :
            birdRecs'[b].cellKey = KeyOf(birdRecs'[b], CellSizeOf(hitRadius))]_vars
  /\ [][SpawnBird =>
          /\ LET b == birdsRef'[Len(birdsRef')]
             IN birdRecs'[b].cellKey = KeyOf(birdRecs'[b], CellSizeOf(hitRadius))
          /\ \A b \in Range(birdsRef) : birdRecs'[b].cellKey = birdRecs[b].cellKey]_vars

\* C19 witness: two flying records are active; the one spawned last has the
\* key of the current cell size and of no other, the other one a key that
\* is not the key of its position under the current cell size.
C19_Witness ==
  /\ Len(birdsRef) = 2
  /\ LET older == birdRecs[birdsRef[1]]
         newer == birdRecs[birdsRef[2]]
     IN /\ older.status = "flying" /\ newer.status = "flying"
        /\ older.cellKey # KeyOf(older, CellSizeOf(hitRadius))
        /\ newer.cellKey = KeyOf(newer, CellSizeOf(hitRadius))
        /\ \A cellSize \in CellSizes \ {CellSizeOf(hitRadius)} :
              newer.cellKey # KeyOf(newer, cellSize)

\* Every active record is keyed under the cell size of the current radius.
IndexConsistent ==
  \A b \in Range(birdsRef) : birdRecs[b].cellKey = KeyOf(birdRecs[b], CellSizeOf(hitRadius))

\* The records a click or pinch at (x, y) turns from 'flying' to 'hit'.
CaughtAt(x, y) ==
  LET after == CatchAll(birdRecs, birdsRef,
                        queryNearbyBirds(SimState, x, y, hitRadius), x, y, hitRadius)
  IN {b \in DOMAIN birdRecs : birdRecs[b].status = "flying" /\ after[b].status = "hit"}

\* C22: when every active record is keyed under the cell size of the
\* current hit radius, the records a click or pinch at (x, y) hits are
\* exactly the flying records of the active array whose squared distance
\* from (x, y) is less than the squared hit radius, for every point of the
\* game area.
C22_IndexedHitIsBruteForce ==
  IndexConsistent =>
    \A x \in 0..width, y \in 0..height :
      CaughtAt(x, y) =
        {b \in Range(birdsRef) :
           birdRecs[b].status = "flying" /\ WithinRadius(x, y, birdRecs[b], hitRadius)}

\* C22 witness: with the index consistent, one input has hit two records
\* that lie in different buckets and have not moved since.
C22_Witness ==
  /\ IndexConsistent
  /\ Len(birdsRef) = 2
  /\ LET one == birdRecs[birdsRef[1]]
         two == birdRecs[birdsRef[2]]
     IN /\ one.status = "hit" /\ one.velocityY = HitVelocityY
        /\ two.status = "hit" /\ two.velocityY = HitVelocityY
        /\ one.cellKey # two.cellKey
        /\ \E x \in 0..width, y \in 0..height :
              WithinRadius(x, y, one, hitRadius) /\ WithinRadius(x, y, two, hitRadius)

\* -------------------------------------------------- claims on the draws

\* C16: with r the value of Math.random(), getRandomBird returns Bee for
\* r < 0.60, Butterfly for 0.60 <= r < 0.85, Blue Mouch for
\* 0.85 <= r < 0.95 and Mouch for r >= 0.95, in multiplayer and in
\* single-player alike.
C16_TypeByInterval ==
  \A m \in Modes :
    drawnBird[m] # "" =>
      /\ drawnBird[m] = "Bee" <=> random * 100 < 60 * RandomSteps
      /\ drawnBird[m] = "Butterfly"
           <=> (60 * RandomSteps <= random * 100 /\ random * 100 < 85 * RandomSteps)
      /\ drawnBird[m] = "Blue Mouch"
           <=> (85 * RandomSteps <= random * 100 /\ random * 100 < 95 * RandomSteps)
      /\ drawnBird[m] = "Mouch" <=> 95 * RandomSteps <= random * 100

\* C16 witness: both modes have drawn with r exactly 0.85, the lower end of
\* the Blue Mouch interval.
C16_Witness ==
  /\ random * 100 = 85 * RandomSteps
  /\ drawnBird = [m \in Modes |-> "Blue Mouch"]

\* C17: for seconds s in 0..60 the base speed is 1.5 + 1.5 * (1 - s / 60):
\* 1.5 at s = 60, 3.0 at s = 0, within [1.5, 3.0], at least the base speed
\* of every later s (non-decreasing as s decreases), and the speed is the
\* base speed plus a value in [0, 1); in multiplayer and single-player.
C17_BaseSpeedRamp ==
  \A m \in Modes :
    drawnBaseSpeed[m] # NoSpeed =>
      /\ 2 * FullRound * drawnBaseSpeed[m]
            = 3 * SpeedUnit * FullRound + 3 * SpeedUnit * (FullRound - drawSeconds)
      /\ drawSeconds = FullRound => 2 * drawnBaseSpeed[m] = 3 * SpeedUnit
      /\ drawSeconds = 0 => drawnBaseSpeed[m] = 3 * SpeedUnit
      /\ 2 * drawnBaseSpeed[m] >= 3 * SpeedUnit /\ drawnBaseSpeed[m] <= 3 * SpeedUnit
      /\ \A s \in drawSeconds..FullRound :
            drawnBaseSpeed[m] >= (IF m = "multi" THEN baseSpeed(s) ELSE baseSpeedSingle(s))
      /\ drawnSpeed[m] - drawnBaseSpeed[m] >= 0
      /\ drawnSpeed[m] - drawnBaseSpeed[m] < SpeedUnit
      /\ RandomSteps * (drawnSpeed[m] - drawnBaseSpeed[m]) = random * SpeedUnit

\* C17 witness: both modes have computed the speed at seconds = 0 with the
\* largest value of Math.random().
C17_Witness ==
  /\ drawSeconds = 0 /\ random = RandomSteps - 1
  /\ drawnBaseSpeed = [m \in Modes |-> 3 * SpeedUnit]
  /\ \A m \in Modes : drawnSpeed[m] > drawnBaseSpeed[m]

\* ------------------------------------------ claims on the hit histories

\* C20: a hit shared by participant p changes only p's entry of the shared
\* hit histories, and the shared hit histories hold, for every participant
\* q, every record q has produced, in the order q produced them.
C20_HistoriesOwnedByProducer ==
  /\ [](\A q \in Hitters : SharedHistories[q] = ProducedBy(q))
  /\ [][\A p \in Hitters :
          ShareHit(p) =>
            \A q \in Hitters \ {p} : SharedHistories'[q] = SharedHistories[q]]_vars

\* ------------------------------------------- claims on the round result

\* C21: between a round reaching Over and the start of the next round the
\* client invokes saveGameData at most once.
C21_SavedAtMostOnce == saveCalls <= 1

\* ----------------------------------------------------- claims on catching

\* The hit records of entity e.
RecordsOf(e) == SelectSeq(catchHistory, LAMBDA h : h.entity = e)

\* C23: in multiplayer every entity has at most one hit record; catchBird
\* on a flying entity appends exactly one record, with the species' name
\* and points, and makes the entity 'hit' with velocity (0, 2); catchBird
\* on an entity that is not flying, and a second catchBird on the same
\* entity, change nothing.
C23_ScoredOnceMulti ==
  catchMode = "multi" =>
    \A e \in 1..Len(entities) :
      LET once == catchBirdMulti(CatchState, e)
          twice == catchBirdMulti(once, e)
          flying == entities[e].active /\ entities[e].status = "flying"
      IN /\ Len(RecordsOf(e)) <= 1
         /\ twice = once
         /\ ~flying => once = CatchState
         /\ flying =>
              /\ once.history =
                    Append(catchHistory,
                           [birdType |-> entities[e].bird,
                            points |-> BirdPoints[entities[e].bird], entity |-> e])
              /\ once.birds[e].status = "hit"
              /\ once.birds[e].velocityX = 0 /\ once.birds[e].velocityY = HitVelocityY
              /\ \A o \in 1..Len(entities) : o # e => once.birds[o] = entities[o]
         /\ entities[e].status = "hit" =>
              (Len(RecordsOf(e)) = 1 /\ entities[e].velocityX = 0
                 /\ entities[e].velocityY = HitVelocityY)

\* C23 witness: one input has hit two entities of different species, each
\* has its one record, and both are still active and so open to a second
\* hit.
C23_Witness ==
  /\ catchMode = "multi"
  /\ Len(entities) = 2 /\ Len(catchHistory) = 2
  /\ entities[1].bird # entities[2].bird
  /\ \A e \in 1..2 : entities[e].active /\ entities[e].status = "hit"

\* C24: in single-player every entity has at most one hit record.
C24_ScoredOnceSingle ==
  catchMode = "single" => \A e \in 1..Len(entities) : Len(RecordsOf(e)) <= 1

\* ---------------------------------- claims on the countdown and the clock

C27_StartsWithFullClock ==
  [][~gameStarted /\ gameStarted' => seconds' = RoundSeconds]_vars

\* C27 witness: the second round has just started; the first one had run
\* its clock down to 0.
C27_Witness ==
  /\ gameId = 2 /\ gameStarted /\ seconds = RoundSeconds
  /\ countdown = 0 /\ NoStartTimer

\* C28: in a running round a second of wall-clock time takes the shared
\* seconds down by exactly 1, however many participants are connected.
C28_OnePerSecond ==
  [][(ticked # {} /\ ticked' = {} /\ secondStart > 0) => seconds = secondStart - 1]_vars

C30_NextRoundByHostOnly ==
  /\ [](/\ gameId >= 1
        /\ DOMAIN gameResults = 1..(gameId - 1)
        /\ \A u \in Users :
             ~isCurrentHost(u) => ~ENABLED <<CallSetupNextGame(u)>>_vars)
  /\ [][(gameId' # gameId \/ gameResults' # gameResults) =>
          /\ hostUserId \in users /\ Screen(hostUserId) = "over"
          /\ gameId' = gameId + 1
          /\ DOMAIN gameResults' = DOMAIN gameResults \cup {gameId}
          /\ gameResults'[gameId] = allTotalScores
          /\ \A k \in DOMAIN gameResults : gameResults'[k] = gameResults[k]
          /\ ~gameStarted' /\ countdown' = 0 /\ seconds' = RoundSeconds]_vars

\* C30 witness: the host has set up the next round twice; the two rounds'
\* entries differ, and a participant who is not the host is on the
\* game-over screen of the third round, where it can call setupNextGame.
C30_Witness ==
  /\ gameId = 3 /\ DOMAIN gameResults = {1, 2}
  /\ gameResults[1] # gameResults[2]
  /\ \E u \in users : ~isCurrentHost(u) /\ Screen(u) = "over" /\ Settled(u)

\* ---------------------------------------------------- claims on the host

\* C31: when hostUserId names a participant who is not in the non-empty
\* roster, hostUserId is eventually a member of the roster; every step that
\* writes hostUserId writes a member of the roster, and only when the host
\* it replaces is not in the roster.
C31_HostReelected ==
  /\ [][hostUserId' # hostUserId =>
          hostUserId' \in users /\ hostUserId \notin users]_vars
  /\ HostTransferCond ~> (hostUserId \in users \/ users = {})

\* C31 witness: the creator of the room has left and another participant
\* of a roster of two is the host.
C31_Witness ==
  /\ Creator \notin users /\ userCount = 2
  /\ hostUserId \in users

\* Participants who evaluate isCurrentHost (myId === hostUserId) as true.
CurrentHosts == {u \in users : HostView(u) = u}

\* Every replica holds the latest value and no transfer is due.
ReplicationSettled ==
  /\ \A u \in users : hostSeen[u] = Len(hostWrites)
  /\ \A u \in users : HostView(u) \in users

\* C32: once the initial host is set, at most one connected participant
\* evaluates isCurrentHost as true, and exactly one when replication has
\* settled in a non-empty room.
C32_OneHost ==
  hostWrites # <<>> =>
    /\ Cardinality(CurrentHosts) <= 1
    /\ (users # {} /\ ReplicationSettled) => Cardinality(CurrentHosts) = 1

\* The second half of C32 alone: settled replicas agree on one host.
OneHostWhenSettled ==
  (hostWrites # <<>> /\ users # {} /\ ReplicationSettled) =>
    Cardinality(CurrentHosts) = 1

\* C33: sessionEnded turns true only in a step of the participant whose id
\* is hostUserId, by handleEndSession or by the expiry of the waiting
\* timer, and that step is a forceEndSession: it leaves nobody connected.
C33_OnlyHostEnds ==
  [][~sessionEnded /\ sessionEnded' =>
       /\ \E u \in users :
            /\ isCurrentHost(u)
            /\ \/ HandleEndSession(u)
               \/ WaitingTick(u) /\ waitingTimer <= 1
       /\ users # {} /\ users' = {}]_vars

\* C33 witness: the host's waiting timer has expired; the session is ended
\* and the room is empty.
C33_Witness ==
  /\ sessionEnded /\ users = {}
  /\ waitingForPlayers /\ waitingTimer = 0

\* -------------------------------------------------------------------- C34
\* const score = hitHistory.reduce((sum, hit) => sum + hit.points, 0)
RECURSIVE SumPoints(_)
SumPoints(history) ==
  IF history = <<>> THEN 0 ELSE Head(history).points + SumPoints(Tail(history))

\* The steps in which an awaited recordHitImmediate settles.
RecordSettled == pendingRecords' = pendingRecords - 1

\* The steps in which catchBird applies a hit locally.
HitApplied == Len(catchHistory') > Len(catchHistory)

\* C34: a recordHitImmediate call that succeeds, returns success false or
\* throws takes nothing back: in the step in which it settles the hit history,
\* the score and every entity are what they were, and no step at all removes
\* a record of the history, lowers the score or turns a 'hit' entity back.
\* A call is started for every record appended while an address is set and
\* for none without one, and the local hit is applied in both cases: the
\* record is appended and the entity, while it is in the game, is 'hit'.
C34_HitNotRolledBack ==
  /\ [][RecordSettled =>
          /\ catchHistory' = catchHistory
          /\ SumPoints(catchHistory') = SumPoints(catchHistory)
          /\ entities' = entities]_vars
  /\ [][/\ Len(catchHistory') >= Len(catchHistory)
        /\ SubSeq(catchHistory', 1, Len(catchHistory)) = catchHistory
        /\ SumPoints(catchHistory') >= SumPoints(catchHistory)
        /\ \A e \in 1..Len(entities) :
             entities[e].status = "hit" =>
               e <= Len(entities') /\ entities'[e].status = "hit"]_vars
  /\ [][HitApplied =>
          /\ pendingRecords' - pendingRecords =
               IF address THEN Len(catchHistory') - Len(catchHistory) ELSE 0
          /\ \A h \in (Len(catchHistory) + 1)..Len(catchHistory') :
               entities'[catchHistory'[h].entity].active =>
                 entities'[catchHistory'[h].entity].status = "hit"]_vars

\* A call has thrown and another was skipped for want of an address; both
\* hits are in the history, scored, and their entities are 'hit'.
C34_Witness ==
  /\ lastRecord = "thrown" /\ pendingRecords = 0 /\ ~address
  /\ Len(catchHistory) = 2
  /\ catchHistory[1].entity # catchHistory[2].entity
  /\ SumPoints(catchHistory) = catchHistory[1].points + catchHistory[2].points
  /\ \A h \in 1..2 : /\ entities[catchHistory[h].entity].active
                     /\ entities[catchHistory[h].entity].status = "hit"

\* -------------------------------------------------------------------- C35
\* C35: waitingTimer stays within 0..WaitingSeconds (30 in the code); it goes
\* down only by 1, in a step of the waiting timer of the one connected
\* participant, while waitingForPlayers holds in a started round that is not
\* over for that participant, and it goes up only to WaitingSeconds. For a
\* participant in Over with fewer than 2 connected, waitingForPlayers is shown
\* and the waiting timer cannot fire, and a step that ends the session while
\* every connected participant is in Over is not a timer expiry.
C35_WaitingTimerBounded ==
  /\ [](waitingTimer \in 0..WaitingSeconds)
  /\ [][waitingTimer' < waitingTimer =>
          /\ waitingTimer' = waitingTimer - 1
          /\ waitingForPlayers /\ gameStarted
          /\ userCount < MinPlayers
          /\ \E u \in users : ~gameOver[u]]_vars
  /\ [][waitingTimer' > waitingTimer => waitingTimer' = WaitingSeconds]_vars
  /\ [](\A u \in users :
          (Settled(u) /\ gameOver[u] /\ userCount < MinPlayers) =>
             waitingForPlayers /\ ~ENABLED WaitingTick(u))
  /\ [][(~sessionEnded /\ sessionEnded' /\ \A u \in users : gameOver[u]) =>
          waitingTimer' = waitingTimer]_vars

\* C35 witness: the round ended while the timer had counted part of the way
\* down; the one participant left is in Over with the waiting message and the
\* timer stands still.
C35_Witness ==
  /\ \E u \in Users : users = {u} /\ Settled(u) /\ gameOver[u]
  /\ waitingForPlayers /\ ~sessionEnded
  /\ waitingTimer \in 1..(WaitingSeconds - 1)

\* -------------------------------------------------------------------- C36
\* An entity of the simulation that was hit and is still in birdsRef.
Falling(b) == b \in Range(birdsRef) /\ birdRecs[b].status = "hit"

\* The entity moveBirds drops (return null).
Dropped == [dropped |-> TRUE]

\* Single-player moveBirds on one entity.
moveBirds(bird) ==
  IF bird.status = "hit"
    THEN LET newVelocityY == bird.velocityY + Gravity
             newY == bird.y + newVelocityY
         IN IF newY > height + FallMargin
              THEN Dropped
              ELSE [bird EXCEPT !.y = newY, !.velocityY = newVelocityY]
    ELSE LET newX == bird.x + bird.velocityX
             newY == bird.y + bird.velocityY
         IN IF \/ newX < -OffMargin \/ newX > width + OffMargin
               \/ newY < -OffMargin \/ newY > height + OffMargin
              THEN Dropped
              ELSE [bird EXCEPT !.x = newX, !.y = newY]

\* C36: a frame of the simulation adds Gravity to the velocityY of every
\* falling entity and then the new velocityY to its y, leaves its x alone, and
\* removes it exactly when the new y exceeds height + FallMargin (100 px below
\* the container): multiplayer releases it to the pool, single-player's
\* moveBirds drops it in the same case and otherwise computes the same
\* position. While frames keep coming, every falling entity is eventually
\* removed.
C36_FallingIsRemoved ==
  /\ [][GameLoopTick =>
          \A b \in DOMAIN birdRecs :
            Falling(b) =>
              LET velocityY == birdRecs[b].velocityY + Gravity
                  y == birdRecs[b].y + velocityY
                  single == moveBirds(birdRecs[b])
              IN /\ birdRecs'[b].velocityY = velocityY
                 /\ birdRecs'[b].y = y
                 /\ birdRecs'[b].x = birdRecs[b].x
                 /\ b \in Range(birdsRef') <=> y <= height + FallMargin
                 /\ b \notin Range(birdsRef') =>
                      b \in Range(birdPoolRef') /\ ~birdRecs'[b].active
                 /\ single = Dropped <=> b \notin Range(birdsRef')
                 /\ single # Dropped =>
                      /\ single.x = birdRecs'[b].x
                      /\ single.y = birdRecs'[b].y
                      /\ single.velocityY = birdRecs'[b].velocityY]_vars
  /\ \A b \in Records : Falling(b) ~> ~Falling(b)

\* C36 witness: an entity has been falling for a frame and is still in the
\* simulation, faster than it was hit.
C36_Witness ==
  \E b \in DOMAIN birdRecs :
    /\ Falling(b)
    /\ birdRecs[b].velocityY > HitVelocityY
    /\ birdRecs[b].y <= height + FallMargin

\* -------------------------------------------------------------------- C37
\* C37: an entity created at the left or right edge, a flock member or not,
\* has velocityX # 0; flock members come from those two edges only;
\* velocityX is 0 exactly for an entity created at the top or bottom edge
\* whose entry x equals its target x, and only for such an entity does the
\* Butterfly wave divide by a velocityX of 0.
C37_SidewaysVelocity ==
  spawned # NoSpawn =>
    /\ spawned.side \in {0, 1} => spawned.velocityX # 0
    /\ spawned.inFlock => spawned.side \in {0, 1} /\ spawned.velocityX # 0
    /\ spawned.velocityX = 0 <=>
         (spawned.side \in {2, 3} /\ spawned.x = spawned.targetX)
    /\ waveDivZero =>
         (spawned.side \in {2, 3} /\ spawned.x = spawned.targetX)

\* C37 witness: a Butterfly that entered at the top or bottom straight above
\* or below its target has had its wave computed with velocityX = 0.
C37_Witness ==
  /\ spawned # NoSpawn
  /\ spawned.side \in {2, 3} /\ spawned.x = spawned.targetX
  /\ spawned.bird = "Butterfly" /\ spawned.velocityX = 0
  /\ waveDivZero

\* A flock member has entered with a velocityX away from its edge.
C37_FlockWitness ==
  /\ spawned # NoSpawn
  /\ spawned.inFlock /\ spawned.side = 1 /\ spawned.velocityX < 0

\* -------------------------------------------------------------------- C38
\* C38: no two entities of birdsRef share an id, and the entity catchBird
\* finds by id is the entity that was hit-tested.
C38_UniqueIds ==
  /\ \A i, j \in 1..Len(idBirds) : idBirds[i].id = idBirds[j].id => i = j
  /\ lastCatch.found = lastCatch.tested

\* -------------------------------------------------------------------- C39
\* C39: the total is changed only by the total-score effect of a commit with
\* gameOver true and isGameOverHandled.current false, which sets the latch
\* and adds the round's score; the score does not change between gameOver
\* becoming true and that commit; once the commits are done the latch is set
\* exactly while gameOver is true, so every round that reaches Over is added,
\* and once; and the latch is cleared only in the commit of a new gameId,
\* with gameOver false again.
C39_TotalsOncePerRound ==
  /\ [][(myTotalScore' # myTotalScore \/ (~isGameOverHandled /\ isGameOverHandled')) =>
          /\ hostGameOver /\ ~isGameOverHandled /\ isGameOverHandled'
          /\ myTotalScore' = myTotalScore + myHitHistory]_vars
  /\ [][(hostGameOver /\ ~isGameOverHandled) => myHitHistory' = myHitHistory]_vars
  /\ [](~SaveEffectPending => (isGameOverHandled <=> hostGameOver))
  /\ [][(isGameOverHandled /\ ~isGameOverHandled') =>
          ~hostGameOver /\ resetDeps # hostGameId]_vars

\* C39 witness: the second round is over and was added to the total of the
\* first.
C39_Witness ==
  /\ hostGameId = 2 /\ hostGameOver /\ isGameOverHandled /\ ~SaveEffectPending
  /\ myHitHistory > 0 /\ myTotalScore > myHitHistory

\* -------------------------------------------------------------------- C40
\* C40: the index holds no empty bucket, and every record in a bucket is in
\* birdsRef, active and not in the pool.
C40_NoEmptyBucketNoReleased ==
  \A k \in DOMAIN spatialHashRef :
    /\ spatialHashRef[k] # <<>>
    /\ \A b \in Range(spatialHashRef[k]) :
         /\ b \in Range(birdsRef)
         /\ birdRecs[b].active
         /\ b \notin Range(birdPoolRef)

\* C40 witness: a frame released one of two records from the middle of
\* birdsRef; the record is in the pool and the index has the one bucket of
\* the record that is left.
C40_Witness ==
  /\ lastRemoval = "middle"
  /\ Len(birdsRef) = 1 /\ Len(birdPoolRef) = 1
  /\ DOMAIN spatialHashRef = {birdRecs[birdsRef[1]].cellKey}
  /\ spatialHashRef[birdRecs[birdsRef[1]].cellKey] = <<birdsRef[1]>>

=============================================================================
